---- MODULE Spec2Model ----
(***************************************************************************)
(* Model of copilot_mcp_tool: the lock-file coordinated tool server        *)
(* (src/src/main.rs), its line-oriented JSON-RPC client                    *)
(* (src/src/client.rs) and the tool dispatch of EchoServerTool.            *)
(***************************************************************************)
EXTENDS Integers, Sequences, FiniteSets, TLC

\* ------------------------------------------------------------------ bounds
MaxInv  == 2    \* CLI invocations (processes running main) in one behaviour
MaxPid  == 2    \* process ids the OS hands out: 1..MaxPid (ids are reused)
MaxPort == 2    \* ephemeral loopback ports the OS hands out: 1..MaxPort

Invs  == 1..MaxInv
\* Server processes: the one spawned by invocation i is i; 0 is a server left
\* running by an earlier session.
Srvs  == 0..MaxInv
Pids  == 1..MaxPid
Ports == 1..MaxPort

\* ------------------------------------------------------------------ state
VARIABLES
    lockFile,   \* content of <temp>/copilot_mcp_tool.lock
    logGen,     \* how often the server log files were created (truncated)
    srv,        \* srv[s]: server process s
    other,      \* pid of a live process that is not a tool server (0: none)
    inv,        \* inv[i]: CLI invocation i (one run of main)
    conn,       \* conn[i]: the TCP connection opened by invocation i
    ran,        \* tool bodies and backend calls the server has executed
    dlog,       \* requests put to the ServerHandler and its answers
    store       \* the TokenStore of the OAuth plugin and its token file

vars == <<lockFile, logGen, srv, other, inv, conn, ran, dlog, store>>
life == <<lockFile, logGen, srv, other, inv>>
rest == <<conn, ran, dlog, store>>

\* The lock file: absent, unparseable, or the JSON of a LockData.
Absent  == [kind |-> "absent"]
Garbage == [kind |-> "garbage"]
LockJson(p, q) == [kind |-> "json", pid |-> p, port |-> q]

\* struct LockData { pid, port }
LockData(p, q) == [pid |-> p, port |-> q]
None == [pid |-> 0, port |-> 0]

\* A server process is in the OS process table from spawn until it exits.
LivePcs == {"init", "bound", "accept"}
NoServer == [pc |-> "none", pid |-> 0, port |-> 0]
\* A process that is gone holds neither a pid nor a port.
Gone(how) == [pc |-> how, pid |-> 0, port |-> 0]
ServerPids == {srv[s].pid : s \in {t \in Srvs : srv[t].pc \in LivePcs}}

\* System::new_all(): the snapshot of the OS process table.
Procs == ServerPids \cup ({other} \ {0})

\* Ports some live listener holds.
BoundPorts == {srv[s].port : s \in {t \in Srvs : srv[t].pc \in {"bound", "accept"}}}

\* read_lock_file: Err when the file is absent or does not parse.
read_lock_file ==
    IF lockFile.kind = "json"
    THEN [ok |-> TRUE, data |-> LockData(lockFile.pid, lockFile.port)]
    ELSE [ok |-> FALSE, data |-> None]

\* A server_is_running that trusts the file and never looks at the process table.
server_is_running_NoLiveness ==
    IF read_lock_file.ok THEN read_lock_file.data ELSE None

\* server_is_running: Some(data) iff the file parses and data.pid is a live process.
server_is_running ==
    IF read_lock_file.ok /\ read_lock_file.data.pid \in Procs
    THEN read_lock_file.data
    ELSE None

\* What an invocation found when it looked for a running server.
Saw == IF lockFile.kind # "json" THEN lockFile.kind
       ELSE IF lockFile.pid \in Procs THEN "live" ELSE "stale"

IdleInv == [cmd |-> "none", args |-> <<>>, pc |-> "idle", saw |-> "", seen |-> None,
            out |-> "", exit |-> 0]

\* No socket yet.
NoConn == [st |-> "none", to |-> 0, hs |-> "none", c2s |-> <<>>, s2c |-> <<>>,
           ev |-> <<>>, served |-> <<>>, over |-> {}]

\* The pid and port of the earlier session's server (which ones is immaterial).
FirstPid  == CHOOSE p \in Pids : \A r \in Pids : p <= r
FirstPort == CHOOSE q \in Ports : \A r \in Ports : q <= r

\* No server, or the server of an earlier `start` still in its accept loop
\* with its record in the lock file.
Init ==
    /\ \/ /\ lockFile = Absent
          /\ srv = [s \in Srvs |-> NoServer]
       \/ /\ lockFile = LockJson(FirstPid, FirstPort)
          /\ srv = [s \in Srvs |-> IF s = 0 THEN [pc |-> "accept", pid |-> FirstPid,
                                                   port |-> FirstPort]
                                   ELSE NoServer]
    /\ logGen = 0
    /\ other = 0
    /\ inv = [i \in Invs |-> IdleInv]
    /\ conn = [i \in Invs |-> NoConn]
    /\ ran = <<>>
    /\ dlog = <<>>
    /\ store = [made |-> FALSE]

\* ------------------------------------------------------------ CLI commands
LifeCmds == {"start", "stop", "status"}

\* main_dispatcher: the operator runs `copilot_mcp_tool <c>`.
Invoke(i, c) ==
    /\ inv[i].pc = "idle"
    /\ \A j \in Invs : j < i => inv[j].pc # "idle"
    /\ inv' = [inv EXCEPT ![i].cmd = c, ![i].pc = "check"]
    /\ UNCHANGED <<lockFile, logGen, srv, other>>
    /\ UNCHANGED rest

Finish(i, o, e) == [inv EXCEPT ![i].pc = "done", ![i].out = o, ![i].exit = e,
                               ![i].saw = Saw, ![i].seen = server_is_running]

\* show_status: prints RUNNING or STOPPED, never fails.
StatusLine == IF server_is_running # None THEN "RUNNING" ELSE "STOPPED"

\* A show_status that cleans up a lock file it finds stale.
show_status_Cleaning(i) ==
    /\ inv[i].cmd = "status"
    /\ inv[i].pc = "check"
    /\ inv' = Finish(i, StatusLine, 0)
    /\ lockFile' = IF server_is_running = None THEN Absent ELSE lockFile
    /\ UNCHANGED <<logGen, srv, other>>
    /\ UNCHANGED rest

\* `status`: show_status.
show_status(i) ==
    /\ inv[i].cmd = "status"
    /\ inv[i].pc = "check"
    /\ inv' = Finish(i, StatusLine, 0)
    /\ UNCHANGED <<lockFile, logGen, srv, other>>
    /\ UNCHANGED rest

\* A start_server without the early return.
StartCheck_NoEarlyReturn(i) ==
    /\ inv[i].cmd = "start"
    /\ inv[i].pc = "check"
    /\ inv' = [inv EXCEPT ![i].pc = "spawn", ![i].saw = Saw]
    /\ UNCHANGED <<lockFile, logGen, srv, other>>
    /\ UNCHANGED rest

\* start_server, lines 111-114: the already-running early return.
StartCheck(i) ==
    /\ inv[i].cmd = "start"
    /\ inv[i].pc = "check"
    /\ IF server_is_running # None
       THEN inv' = Finish(i, "ALREADY_RUNNING", 0)
       ELSE inv' = [inv EXCEPT ![i].pc = "spawn", ![i].saw = Saw]
    /\ UNCHANGED <<lockFile, logGen, srv, other>>
    /\ UNCHANGED rest

\* The values the OS can give from a free set: what matters about a pid or a
\* port is whether it is the one the lock file records (reuse) or a fresh one,
\* so the fresh one is the lowest free.
Fresh(free, recorded) ==
    (free \cap {recorded}) \cup {x \in free : \A y \in free : x <= y}
LockPid  == IF lockFile.kind = "json" THEN lockFile.pid ELSE 0
LockPort == IF lockFile.kind = "json" THEN lockFile.port ELSE 0

\* start_server, lines 116-137: create the log files, spawn run-server-internal.
StartSpawn(i) ==
    /\ inv[i].cmd = "start"
    /\ inv[i].pc = "spawn"
    /\ \E p \in Fresh(Pids \ Procs, LockPid) :
          srv' = [srv EXCEPT ![i] = [pc |-> "init", pid |-> p, port |-> 0]]
    /\ logGen' = logGen + 1
    /\ inv' = [inv EXCEPT ![i].pc = "sleep"]
    /\ UNCHANGED <<lockFile, other>>
    /\ UNCHANGED rest

\* start_server, lines 139-142: after the sleep, show_status and return Ok.
StartStatus(i) ==
    /\ inv[i].cmd = "start"
    /\ inv[i].pc = "sleep"
    /\ inv' = [inv EXCEPT ![i].pc = "done", ![i].out = StatusLine, ![i].exit = 0]
    /\ UNCHANGED <<lockFile, logGen, srv, other>>
    /\ UNCHANGED rest

\* A stop_server that removes the lock file on the not-running path too.
StopCheck_RemoveAlways(i) ==
    /\ inv[i].cmd = "stop"
    /\ inv[i].pc = "check"
    /\ IF server_is_running # None
       THEN /\ inv' = [inv EXCEPT ![i].pc = "kill", ![i].saw = Saw,
                                  ![i].seen = server_is_running]
            /\ UNCHANGED lockFile
       ELSE /\ inv' = Finish(i, IF lockFile = Absent THEN "ERROR" ELSE "NOT_RUNNING",
                                IF lockFile = Absent THEN 1 ELSE 0)
            /\ lockFile' = Absent
    /\ UNCHANGED <<logGen, srv, other>>
    /\ UNCHANGED rest

\* stop_server, lines 146 and 156-159: nothing to do unless a live record is found.
StopCheck(i) ==
    /\ inv[i].cmd = "stop"
    /\ inv[i].pc = "check"
    /\ IF server_is_running # None
       THEN inv' = [inv EXCEPT ![i].pc = "kill", ![i].saw = Saw,
                               ![i].seen = server_is_running]
       ELSE inv' = Finish(i, "NOT_RUNNING", 0)
    /\ UNCHANGED <<lockFile, logGen, srv, other>>
    /\ UNCHANGED rest

\* process.kill() on whatever process holds the pid now.
KillPid(p) == [s \in Srvs |->
                 IF srv[s].pc \in LivePcs /\ srv[s].pid = p
                 THEN Gone("dead") ELSE srv[s]]

\* stop_server, lines 147-155: a second process-table snapshot, kill, remove_file.
\* fs::remove_file fails when the file is gone, and `?` makes that the exit.
StopKill(i) ==
    /\ inv[i].cmd = "stop"
    /\ inv[i].pc = "kill"
    /\ srv' = KillPid(inv[i].seen.pid)
    /\ other' = IF other = inv[i].seen.pid THEN 0 ELSE other
    /\ IF lockFile = Absent
       THEN /\ inv' = [inv EXCEPT ![i].pc = "done", ![i].out = "ERROR", ![i].exit = 1,
                               ![i].seen = None]
            /\ UNCHANGED lockFile
       ELSE /\ inv' = [inv EXCEPT ![i].pc = "done", ![i].exit = 0, ![i].seen = None,
                          ![i].out = IF inv[i].seen.pid \in Procs
                                     THEN "SERVER_STOPPED" ELSE "PID_NOT_FOUND"]
            /\ lockFile' = Absent
    /\ UNCHANGED logGen
    /\ UNCHANGED rest

\* ------------------------------------------------------- the server process
\* run_server, lines 308-309: bind 127.0.0.1:0, the OS picks a free port.
ServerBind(s) ==
    /\ srv[s].pc = "init"
    /\ \E q \in Fresh(Ports \ BoundPorts, LockPort) :
          srv' = [srv EXCEPT ![s].pc = "bound", ![s].port = q]
    /\ UNCHANGED <<lockFile, logGen, other, inv>>
    /\ UNCHANGED rest

\* A lock write that keeps a record that is already there (create_new).
LockWritten_KeepExisting(s) ==
    IF lockFile.kind = "json" THEN lockFile ELSE LockJson(srv[s].pid, srv[s].port)

\* run_server, lines 311-316: the record written is {own pid, bound port}.
LockWritten(s) == LockJson(srv[s].pid, srv[s].port)

\* A run_server that writes the lock record first and binds afterwards.
ServerWriteLock_BeforeBind(s) ==
    /\ srv[s].pc = "init"
    /\ lockFile' = LockWritten(s)
    /\ srv' = [srv EXCEPT ![s].pc = "accept"]
    /\ UNCHANGED <<logGen, other, inv>>
    /\ UNCHANGED rest

\* run_server, line 316, fs::write succeeds: the server enters the accept loop.
ServerWriteLock(s) ==
    /\ srv[s].pc = "bound"
    /\ lockFile' = LockWritten(s)
    /\ srv' = [srv EXCEPT ![s].pc = "accept"]
    /\ UNCHANGED <<logGen, other, inv>>
    /\ UNCHANGED rest

\* run_server, line 316, fs::write fails (`?`): the process exits with an error;
\* the file is untouched (create failed) or left truncated (write failed).
ServerWriteFail(s) ==
    /\ srv[s].pc = "bound"
    /\ \E f \in {lockFile, Garbage} : lockFile' = f
    /\ srv' = [srv EXCEPT ![s] = Gone("exited")]
    /\ UNCHANGED <<logGen, other, inv>>
    /\ UNCHANGED rest

\* The server process dies (crash, kill from outside).
ServerDie(s) ==
    /\ srv[s].pc \in LivePcs
    /\ srv' = [srv EXCEPT ![s] = Gone("dead")]
    /\ UNCHANGED <<lockFile, logGen, other, inv>>
    /\ UNCHANGED rest

\* ------------------------------------------------------ the rest of the OS
\* Some other program starts and the OS hands it the pid of the dead process
\* the lock file names (any other pid it could get is of no consequence here).
OtherSpawn(p) ==
    /\ other = 0
    /\ lockFile.kind = "json"
    /\ p = lockFile.pid
    /\ p \in Pids \ Procs
    /\ other' = p
    /\ UNCHANGED <<lockFile, logGen, srv, inv>>
    /\ UNCHANGED rest

OtherExit(p) ==
    /\ p = other
    /\ p # 0
    /\ other' = 0
    /\ UNCHANGED <<lockFile, logGen, srv, inv>>
    /\ UNCHANGED rest

Next ==
    \/ \E i \in Invs, c \in LifeCmds : Invoke(i, c)
    \/ \E i \in Invs : show_status(i)
    \/ \E i \in Invs : StartCheck(i)
    \/ \E i \in Invs : StartSpawn(i)
    \/ \E i \in Invs : StartStatus(i)
    \/ \E i \in Invs : StopCheck(i)
    \/ \E i \in Invs : StopKill(i)
    \/ \E s \in Srvs : ServerBind(s)
    \/ \E s \in Srvs : ServerWriteLock(s)
    \/ \E s \in Srvs : ServerWriteFail(s)
    \/ \E s \in Srvs : ServerDie(s)
    \/ \E p \in Pids : OtherSpawn(p)
    \/ \E p \in Pids : OtherExit(p)

Spec == Init /\ [][Next]_vars

\* =================================================== EchoServerTool dispatch
MaxReq == 2     \* requests put to one ServerHandler in one behaviour

\* serde_json::Value, as far as the tools look at it.
JStr(s) == [j |-> "string", v |-> s]
JNum(n) == [j |-> "number", v |-> n]
\* serde_json::Map::new()
EmptyMap == [k \in {} |-> JStr("")]
\* CallToolRequestParam.arguments: Option<Map>
NoneArgs    == [some |-> FALSE]
SomeArgs(m) == [some |-> TRUE, map |-> m]
unwrap_or_default(a) == IF a.some THEN a.map ELSE EmptyMap

\* JSON-RPC error codes of McpError::method_not_found / invalid_params.
METHOD_NOT_FOUND == -32601
INVALID_PARAMS   == -32602
McpError(c, m) == [code |-> c, message |-> m]

\* CallToolResult::structured / structured_error
structured(v)       == [structuredContent |-> v, isError |-> FALSE]
structured_error(v) == [structuredContent |-> v, isError |-> TRUE]

\* serde_json::from_value::<EchoInput>: "" when the map has a string `message`.
EchoInputError(m) ==
    IF "message" \notin DOMAIN m THEN "missing field message"
    ELSE IF m["message"].j # "string"
         THEN "invalid type: " \o m["message"].j \o ", expected a string"
         ELSE ""

\* KillProcessInput.pid: u32. Every integer of the model is below 2^32, so a
\* number fits a u32 exactly when it is not negative.
FitsU32(n) == n >= 0

\* serde_json::from_value::<KillProcessInput>: "" when the map has a u32 `pid`.
KillProcessInputError(m) ==
    IF "pid" \notin DOMAIN m THEN "missing field pid"
    ELSE IF m["pid"].j # "number"
         THEN "invalid type: " \o m["pid"].j \o ", expected u32"
         ELSE IF ~FitsU32(m["pid"].v)
              THEN "invalid value: integer, expected u32"
              ELSE ""

\* LibSystemCommand::kill_process: a placeholder that reports an error.
LibSystemCommand_kill_process(pid) ==
    structured_error([error |-> "LibSystemCommand::kill_process for PID "
                                 \o ToString(pid) \o " not yet implemented."])

\* What `kill -9 <pid>` writes to stderr when no process has the pid: the
\* text of ESRCH.
KillStderr(pid) == "kill: (" \o ToString(pid) \o "): No such process"

\* BinSystemCommand::kill_process on linux/macos: runs `kill -9 <pid>`; a
\* failed kill is reported with the command's stderr.
BinSystemCommand_kill_process(pid) ==
    IF pid \in Procs
    THEN structured([message |-> "Process " \o ToString(pid) \o " killed successfully."])
    ELSE structured_error([error |-> "Failed to kill process " \o ToString(pid) \o ": "
                                     \o KillStderr(pid),
                           stdout |-> "", stderr |-> KillStderr(pid)])

\* The registry: the names call_tool matches on.
Registered == {"echo_message", "kill_process"}

Ok(v, r)  == [ret |-> "Ok", value |-> v, ran |-> r]
Err(e)    == [ret |-> "Err", error |-> e, ran |-> <<>>]

\* An echo_message arm that formats like EchoTool::echo of the tool chain.
echo_message_EchoPrefix(arguments) ==
    LET m == unwrap_or_default(arguments) IN
    IF EchoInputError(m) # ""
    THEN Err(McpError(INVALID_PARAMS, EchoInputError(m)))
    ELSE Ok(structured(JStr("Echo: " \o m["message"].v)),
            <<[tool |-> "echo_message", input |-> m["message"].v]>>)

\* The echo_message arm of call_tool.
echo_message(arguments) ==
    LET m == unwrap_or_default(arguments) IN
    IF EchoInputError(m) # ""
    THEN Err(McpError(INVALID_PARAMS, EchoInputError(m)))
    ELSE Ok(structured(JStr("Echoing: " \o m["message"].v)),
            <<[tool |-> "echo_message", input |-> m["message"].v]>>)

\* A kill_process arm that takes pid 0 when the arguments do not give a pid.
kill_process_DefaultPid(arguments) ==
    LET m == unwrap_or_default(arguments)
        pid == IF KillProcessInputError(m) # "" THEN 0 ELSE m["pid"].v
    IN Ok(LibSystemCommand_kill_process(pid),
          <<[tool |-> "kill_process", input |-> pid]>>)

\* The kill_process arm of call_tool.
kill_process(arguments) ==
    LET m == unwrap_or_default(arguments) IN
    IF KillProcessInputError(m) # ""
    THEN Err(McpError(INVALID_PARAMS, KillProcessInputError(m)))
    ELSE Ok(LibSystemCommand_kill_process(m["pid"].v),
            <<[tool |-> "kill_process", input |-> m["pid"].v]>>)

\* A call_tool whose last arm treats every other name as an echo.
call_tool_EchoByDefault(name, arguments) ==
    IF name = "kill_process" THEN kill_process(arguments)
    ELSE echo_message(arguments)

\* EchoServerTool::call_tool
call_tool(name, arguments) ==
    CASE name = "echo_message" -> echo_message(arguments)
      [] name = "kill_process" -> kill_process(arguments)
      [] OTHER -> Err(McpError(METHOD_NOT_FOUND, "tools/call"))

\* schema_for_type::<EchoInput>() / ::<KillProcessInput>()
Schema(field, type) == [type |-> "object", required |-> {field},
                        properties |-> [k \in {field} |-> type]]

\* A list_tools that lists the tools in the other order.
list_tools_Reversed ==
    Ok([tools |-> << [name |-> "kill_process",
                      description |-> "Kills a process by PID.",
                      input_schema |-> Schema("pid", "integer")],
                     [name |-> "echo_message",
                      description |-> "Echoes a message back",
                      input_schema |-> Schema("message", "string")] >>], <<>>)

\* EchoServerTool::list_tools
list_tools ==
    Ok([tools |-> << [name |-> "echo_message",
                      description |-> "Echoes a message back",
                      input_schema |-> Schema("message", "string")],
                     [name |-> "kill_process",
                      description |-> "Kills a process by PID.",
                      input_schema |-> Schema("pid", "integer")] >>], <<>>)

\* Names and arguments a peer may put into tools/call.
CallNames == {"echo_message", "kill_process", "get_weather", "nonexistent_tool", ""}
CallArgs ==
    {NoneArgs, SomeArgs(EmptyMap),
     SomeArgs([message |-> JStr("hi")]), SomeArgs([message |-> JNum(7)]),
     SomeArgs([message |-> JStr("Echoing: a=b")]),
     SomeArgs([pid |-> JNum(7)]), SomeArgs([pid |-> JStr("7")]),
     SomeArgs([pid |-> JNum(0 - 1)]),
     SomeArgs([message |-> JStr(""), pid |-> JNum(0)])}

\* The handler of a running server is asked tools/call.
HandlerCallTool(n, a) ==
    /\ Len(dlog) < MaxReq
    /\ dlog' = Append(dlog, [method |-> "tools/call", name |-> n, arguments |-> a,
                             reply |-> call_tool(n, a)])
    /\ ran' = ran \o call_tool(n, a).ran
    /\ UNCHANGED store
    /\ UNCHANGED <<life, conn>>

\* A handler whose tools/list answer leaves kill_process out.
HandlerListTools_EchoOnly ==
    /\ Len(dlog) < MaxReq
    /\ dlog' = Append(dlog, [method |-> "tools/list", name |-> "", arguments |-> NoneArgs,
                             reply |-> Ok([tools |-> <<list_tools.value.tools[1]>>], <<>>)])
    /\ UNCHANGED <<life, conn, ran, store>>

\* The handler of a running server is asked tools/list.
HandlerListTools ==
    /\ Len(dlog) < MaxReq
    /\ dlog' = Append(dlog, [method |-> "tools/list", name |-> "", arguments |-> NoneArgs,
                             reply |-> list_tools])
    /\ UNCHANGED <<life, conn, ran, store>>

InitDispatch == Init /\ srv[0].pc = "accept"

NextDispatch ==
    \/ \E n \in CallNames, a \in CallArgs : HandlerCallTool(n, a)
    \/ HandlerListTools

SpecDispatch == InitDispatch /\ [][NextDispatch]_vars

\* ===================================================== the static tool chain
\* EchoTool::echo
echo(message) ==
    [out |-> "Echo: " \o message, calls |-> <<"echo">>]

\* A time tool that delegates to the echo tool for every location.
get_time_in_location_AlwaysEcho(location) ==
    LET echo_result == echo("Time for " \o location)
    IN [out |-> "The current time in " \o location \o " is 12:00 PM. "
                \o echo_result.out,
        calls |-> <<"get_time_in_location">> \o echo_result.calls]

\* TimeTool::get_time_in_location: "EchoCity" delegates to the echo tool.
get_time_in_location(location) ==
    IF location = "EchoCity"
    THEN LET echo_result == echo("Time for " \o location)
         IN [out |-> "The current time in " \o location \o " is 12:00 PM. "
                     \o echo_result.out,
             calls |-> <<"get_time_in_location">> \o echo_result.calls]
    ELSE [out |-> "The current time in " \o location \o " is 12:00 PM.",
          calls |-> <<"get_time_in_location">>]

\* WeatherTool::get_weather: "TimeCity" delegates to the time tool, with the
\* same location.
get_weather(location) ==
    IF location = "TimeCity"
    THEN LET time_result == get_time_in_location(location)
         IN [out |-> "Weather in TimeCity is sunny, and " \o time_result.out,
             calls |-> <<"get_weather">> \o time_result.calls]
    ELSE [out |-> "The weather in " \o location \o " is sunny.",
          calls |-> <<"get_weather">>]

\* Inputs given to the tools of the chain.
Locations == {"TimeCity", "EchoCity", "Paris", ""}
Messages  == {"hi", "Time for EchoCity"}

Applied(tool, input, r) ==
    Append(dlog, [tool |-> tool, input |-> input, out |-> r.out, calls |-> r.calls])

CallGetWeather(l) ==
    /\ Len(dlog) < MaxReq
    /\ dlog' = Applied("get_weather", l, get_weather(l))
    /\ UNCHANGED <<life, conn, ran, store>>

CallGetTime(l) ==
    /\ Len(dlog) < MaxReq
    /\ dlog' = Applied("get_time_in_location", l, get_time_in_location(l))
    /\ UNCHANGED <<life, conn, ran, store>>

CallEcho(m) ==
    /\ Len(dlog) < MaxReq
    /\ dlog' = Applied("echo", m, echo(m))
    /\ UNCHANGED <<life, conn, ran, store>>

NextChain ==
    \/ \E l \in Locations : CallGetWeather(l)
    \/ \E l \in Locations : CallGetTime(l)
    \/ \E m \in Messages : CallEcho(m)

SpecChain == Init /\ [][NextChain]_vars

\* =========================================== the two SystemCommand backends
\* std::env::consts::OS of the build.
OSes == {"linux", "macos", "windows", "freebsd"}

\* The command line BinSystemCommand::kill_process runs on an OS (none on an
\* OS it does not know).
KillCommand(os, pid) ==
    CASE os = "windows" -> <<"taskkill", "/PID", ToString(pid), "/F">>
      [] os \in {"linux", "macos"} -> <<"kill", "-9", ToString(pid)>>
      [] OTHER -> <<>>

\* Result<std::process::Output, std::io::Error> of run_shell_command_bin.
Exited(status, stdout, stderr) ==
    [ok |-> TRUE, status |-> status, stdout |-> stdout, stderr |-> stderr]
SpawnFailed(e) == [ok |-> FALSE, e |-> e]
NotRun == [ok |-> FALSE, e |-> ""]

\* What the kill command of the OS writes to stderr when it fails.
KillComplaint(os, pid, why) ==
    IF os = "windows"
    THEN "ERROR: The process \"" \o ToString(pid) \o "\" " \o why \o "."
    ELSE "kill: (" \o ToString(pid) \o "): " \o why

\* run_shell_command_bin(kill ..): Command::new(..).args(..).output() against
\* the process table.  The command may fail to start; started, it kills a
\* process that exists and that the caller may signal, and exits non-zero
\* with a complaint otherwise.
run_shell_command_bin(os, pid, fate) ==
    CASE fate = "nospawn" -> SpawnFailed("No such file or directory (os error 2)")
      [] pid \notin Procs ->
            Exited(1, "", KillComplaint(os, pid, IF os = "windows" THEN "not found"
                                                 ELSE "No such process"))
      [] fate = "denied" ->
            Exited(1, "", KillComplaint(os, pid, IF os = "windows" THEN "Access is denied"
                                                 ELSE "Operation not permitted"))
      [] OTHER -> Exited(0, "", "")

BinSystemCommand_kill_process_on_AnyExit(os, pid, command_result) ==
    IF KillCommand(os, pid) = <<>>
    THEN structured_error([error |-> "Unsupported operating system: " \o os])
    ELSE IF command_result.ok
         THEN structured([message |-> "Process " \o ToString(pid)
                                       \o " killed successfully."])
         ELSE structured_error(
                  [error |-> "Failed to execute kill command for PID "
                             \o ToString(pid) \o ": " \o command_result.e])

\* BinSystemCommand::kill_process, given the OS and what running the command
\* came to.
BinSystemCommand_kill_process_on(os, pid, command_result) ==
    IF KillCommand(os, pid) = <<>>
    THEN structured_error([error |-> "Unsupported operating system: " \o os])
    ELSE IF command_result.ok
         THEN IF command_result.status = 0
              THEN structured([message |-> "Process " \o ToString(pid)
                                            \o " killed successfully."])
              ELSE structured_error(
                       [error |-> "Failed to kill process " \o ToString(pid) \o ": "
                                  \o command_result.stderr,
                        stdout |-> command_result.stdout,
                        stderr |-> command_result.stderr])
         ELSE structured_error(
                  [error |-> "Failed to execute kill command for PID "
                             \o ToString(pid) \o ": " \o command_result.e])

\* The operations of the SystemCommand trait other than kill_process: both
\* backends answer with a placeholder.
OtherOperations == {"list_processes", "get_memory_usage", "get_disk_usage", "list_ports"}
LibSystemCommand_placeholder(op) ==
    structured_error([error |-> "LibSystemCommand::" \o op \o " not yet implemented."])
BinSystemCommand_placeholder(op) ==
    structured_error([error |-> "BinSystemCommand::" \o op \o " not yet implemented."])

\* The OS of the build is the same for every call of a run.
SameBuild(os) == IF dlog = <<>> THEN TRUE ELSE dlog[1].os = os

\* A process that has nothing to do with the tool starts.
ProcSpawn(p) ==
    /\ other = 0
    /\ p \in Pids \ Procs
    /\ other' = p
    /\ UNCHANGED <<lockFile, logGen, srv, inv>>
    /\ UNCHANGED rest

\* BinSystemCommand.kill_process(KillProcessInput { pid }).
BinKill(os, pid, fate) ==
    /\ Len(dlog) < MaxReq
    /\ SameBuild(os)
    /\ LET ran_it  == KillCommand(os, pid) # <<>>
           output  == IF ran_it THEN run_shell_command_bin(os, pid, fate) ELSE NotRun
           killed  == ran_it /\ output.ok /\ output.status = 0
       IN /\ srv' = IF killed THEN KillPid(pid) ELSE srv
          /\ other' = IF killed /\ other = pid THEN 0 ELSE other
          /\ dlog' = Append(dlog,
                       [backend |-> "Bin", op |-> "kill_process", os |-> os, pid |-> pid,
                        before |-> Procs,
                        command |-> IF ran_it THEN KillCommand(os, pid) ELSE <<>>,
                        output |-> output,
                        result |-> BinSystemCommand_kill_process_on(os, pid, output),
                        after |-> IF killed THEN Procs \ {pid} ELSE Procs])
    /\ UNCHANGED <<lockFile, logGen, inv, conn, ran, store>>

\* LibSystemCommand.kill_process(KillProcessInput { pid }).
LibKill(os, pid) ==
    /\ Len(dlog) < MaxReq
    /\ SameBuild(os)
    /\ dlog' = Append(dlog,
                 [backend |-> "Lib", op |-> "kill_process", os |-> os, pid |-> pid,
                  before |-> Procs, command |-> <<>>, output |-> NotRun,
                  result |-> LibSystemCommand_kill_process(pid),
                  after |-> Procs])
    /\ UNCHANGED <<life, conn, ran, store>>

\* Any other operation of the trait, on either backend.
CallPlaceholder(backend, os, op) ==
    /\ Len(dlog) < MaxReq
    /\ SameBuild(os)
    /\ dlog' = Append(dlog,
                 [backend |-> backend, op |-> op, os |-> os, pid |-> 0,
                  before |-> Procs, command |-> <<>>, output |-> NotRun,
                  result |-> IF backend = "Lib" THEN LibSystemCommand_placeholder(op)
                             ELSE BinSystemCommand_placeholder(op),
                  after |-> Procs])
    /\ UNCHANGED <<life, conn, ran, store>>

NextKill ==
    \/ \E p \in Pids : ProcSpawn(p)
    \/ \E os \in OSes, p \in Pids, f \in {"run", "nospawn", "denied"} : BinKill(os, p, f)
    \/ \E os \in OSes, p \in Pids : LibKill(os, p)
    \/ \E b \in {"Lib", "Bin"}, os \in OSes, op \in OtherOperations :
          CallPlaceholder(b, os, op)

SpecKill == Init /\ [][NextKill]_vars

\* ================================================== the JSON-RPC line codec
\* The fixed id McpClient::send_request gives every request.
REQUEST_ID == 1

JNull == [j |-> "null"]
\* Option<Value>
NoneValue    == [some |-> FALSE]
SomeValue(v) == [some |-> TRUE, value |-> v]

\* serde_json writes a string with its newlines, quotes and backslashes escaped.
RECURSIVE Escape(_)
Escape(s) ==
    IF s = "" THEN ""
    ELSE LET c == SubSeq(s, 1, 1)
         IN (CASE c = "\n" -> "\\n"
               [] c = "\\" -> "\\\\"
               [] c = "\"" -> "\\\""
               [] OTHER -> c) \o Escape(SubSeq(s, 2, Len(s)))

\* ... and reads it back.
RECURSIVE Unescape(_)
Unescape(s) ==
    IF s = "" THEN ""
    ELSE IF SubSeq(s, 1, 1) = "\\" /\ Len(s) >= 2
         THEN (IF SubSeq(s, 2, 2) = "n" THEN "\n" ELSE SubSeq(s, 2, 2))
              \o Unescape(SubSeq(s, 3, Len(s)))
         ELSE SubSeq(s, 1, 1) \o Unescape(SubSeq(s, 2, Len(s)))

\* The message structs of client.rs as Rust values.
Request(method, params) ==
    [ty |-> "RpcRequest", jsonrpc |-> "2.0", id |-> REQUEST_ID, method |-> method,
     params |-> params]
Notification(method, params) ==
    [ty |-> "RpcNotification", jsonrpc |-> "2.0", method |-> method, params |-> params]
Success(result) ==
    [ty |-> "RpcResponse", result |-> [variant |-> "Success", result |-> result]]
Error(code, message, data) ==
    [ty |-> "RpcResponse",
     result |-> [variant |-> "Error",
                 error |-> [code |-> code, message |-> message, data |-> data]]]

\* derive(Serialize): the JSON object of a message.  RpcResponse flattens its
\* untagged RpcResult, so it is written as `result` or `error` alone; a None
\* is written as null.
Serialize(m) ==
    CASE m.ty = "RpcRequest" ->
            [jsonrpc |-> m.jsonrpc, id |-> m.id, method |-> Escape(m.method),
             params |-> m.params]
      [] m.ty = "RpcNotification" ->
            [jsonrpc |-> m.jsonrpc, method |-> Escape(m.method),
             params |-> IF m.params.some THEN m.params.value ELSE JNull]
      [] m.ty = "RpcResponse" /\ m.result.variant = "Success" ->
            [result |-> m.result.result]
      [] OTHER ->
            [error |-> [code |-> m.result.error.code,
                        message |-> Escape(m.result.error.message),
                        data |-> IF m.result.error.data.some
                                 THEN m.result.error.data.value ELSE JNull]]

\* send_request / initialized_notification: serde_json::to_string, push('\n').
encode(m) == [json |-> Serialize(m), end |-> "\n"]

Failed == [ok |-> FALSE]

\* serde_json::from_str::<RpcResponse>: Success when the object has `result`,
\* else Error when it has an `error` with code and message; a `data` that is
\* absent or null is None.
from_str_RpcResponse(json) ==
    IF "result" \in DOMAIN json
    THEN [ok |-> TRUE, value |-> Success(json.result)]
    ELSE IF "error" \in DOMAIN json /\ {"code", "message"} \subseteq DOMAIN json.error
         THEN [ok |-> TRUE,
               value |-> Error(json.error.code, Unescape(json.error.message),
                               IF "data" \notin DOMAIN json.error \/ json.error.data = JNull
                               THEN NoneValue ELSE SomeValue(json.error.data))]
         ELSE Failed

\* serde_json::from_str::<RpcRequest>: all four fields are required.
from_str_RpcRequest(json) ==
    IF {"jsonrpc", "id", "method", "params"} \subseteq DOMAIN json
    THEN [ok |-> TRUE,
          value |-> [ty |-> "RpcRequest", jsonrpc |-> json.jsonrpc, id |-> json.id,
                     method |-> Unescape(json.method), params |-> json.params]]
    ELSE Failed

\* What the Deserialize impls of client.rs make of a line (RpcNotification
\* derives Serialize only).
decode(line) == {from_str_RpcResponse(line.json), from_str_RpcRequest(line.json)}

\* Messages put through the codec.
CodecMessages ==
    { Request("initialize", [protocolVersion |-> JStr("LATEST")]),
      Request("tools/list", EmptyMap),
      Request("tools/call", [name |-> JStr("echo_message"),
                             arguments |-> [message |-> JStr("hi")]]),
      Notification("notifications/initialized", NoneValue),
      Success(EmptyMap),
      Success(JStr("two\nlines")),
      Error(METHOD_NOT_FOUND, "tools/call", NoneValue),
      Error(INVALID_PARAMS, "missing field \"pid\"\nat line 1", SomeValue(JStr("pid"))) }

\* A message is encoded and the line is decoded.
RoundTrip(m) ==
    /\ Len(dlog) < MaxReq
    /\ dlog' = Append(dlog, [m |-> m, line |-> encode(m), back |-> decode(encode(m))])
    /\ UNCHANGED <<life, conn, ran, store>>

NextCodec == \E m \in CodecMessages : RoundTrip(m)

SpecCodec == Init /\ [][NextCodec]_vars

\* ================================================= McpClient as a library
\* The errors a McpClient method hands up through `?`.
IoError(kind)        == [type |-> "std::io::Error", kind |-> kind]
SerdeError(category) == [type |-> "serde_json::Error", category |-> category]
NotConnected         == [type |-> "anyhow", text |-> "Not connected"]
Returned(v) == [ok |-> TRUE, value |-> v]
Raised(e)   == [ok |-> FALSE, error |-> e]

\* What read_line finds on the stream: a line holding a JSON object, a line
\* that is no complete JSON object, the end of the stream (the peer closed
\* it: Ok(0), nothing read) or a reset.
Line(json) == [read |-> "line", json |-> json]
Text(s)    == [read |-> "text", text |-> s]
Eof        == [read |-> "eof"]
Reset      == [read |-> "reset"]

\* serde_json::from_str on a text that is no complete JSON object: the empty
\* text and an object cut short end while a value is being parsed, any other
\* text is a syntax error.
ParseText(s) ==
    IF s = "" \/ SubSeq(s, 1, 1) = "{" THEN SerdeError("Eof") ELSE SerdeError("Syntax")

\* McpClient::connect: TcpStream::connect(..)?
McpClient_connect(outcome) ==
    IF outcome = "refused" THEN Raised(IoError("ConnectionRefused")) ELSE Returned("()")

\* McpClient::send_request: the stream or "Not connected", then write_all(..)?
McpClient_send_request(stream, written) ==
    IF stream = "none" THEN Raised(NotConnected)
    ELSE IF written = "broken" THEN Raised(IoError("BrokenPipe"))
    ELSE Returned("()")

McpClient_receive_response_BailOnError(stream, arrives) ==
    IF stream = "none" THEN Raised(NotConnected)
    ELSE CASE arrives.read = "reset" -> Raised(IoError("ConnectionReset"))
           [] arrives.read = "eof"   -> Raised(ParseText(""))
           [] arrives.read = "text"  -> Raised(ParseText(arrives.text))
           [] OTHER ->
                IF from_str_RpcResponse(arrives.json).ok
                   /\ from_str_RpcResponse(arrives.json).value.result.variant = "Success"
                THEN Returned(from_str_RpcResponse(arrives.json).value)
                ELSE Raised(SerdeError("Data"))

\* McpClient::receive_response: read_line(..)? into an empty String, then
\* serde_json::from_str(..)? on what was read.
McpClient_receive_response(stream, arrives) ==
    IF stream = "none" THEN Raised(NotConnected)
    ELSE CASE arrives.read = "reset" -> Raised(IoError("ConnectionReset"))
           [] arrives.read = "eof"   -> Raised(ParseText(""))
           [] arrives.read = "text"  -> Raised(ParseText(arrives.text))
           [] OTHER ->
                IF from_str_RpcResponse(arrives.json).ok
                THEN Returned(from_str_RpcResponse(arrives.json).value)
                ELSE Raised(SerdeError("Data"))

\* McpClient::list_tools / call_tool: send_request(..)?; receive_response()
McpClient_call(stream, written, arrives) ==
    IF McpClient_send_request(stream, written).ok
    THEN McpClient_receive_response(stream, arrives)
    ELSE McpClient_send_request(stream, written)

\* A response line as a server writes it.
ResponseLine(body) == Line([jsonrpc |-> "2.0", id |-> REQUEST_ID] @@ body)

\* What a peer can make the client read.
Arrivals ==
    { ResponseLine([result |-> EmptyMap]),
      ResponseLine([error |-> [code |-> METHOD_NOT_FOUND, message |-> "tools/call"]]),
      ResponseLine([error |-> [code |-> INVALID_PARAMS,
                               message |-> Escape("missing field \"pid\""),
                               data |-> JStr("pid")]]),
      ResponseLine([done |-> JStr("yes")]),
      Text("Internal Server Error"),
      Text("{\"jsonrpc\":\"2.0\","),
      Eof,
      Reset }

LibMethods == {"tools/list", "tools/call"}

\* The caller's McpClient after its last call: the stream it holds, and
\* whether the peer is still there.
LastCall == dlog[Len(dlog)]

\* let mut client = McpClient::new(); client.connect(port)
LibConnect(outcome) ==
    /\ dlog = <<>>
    /\ dlog' = << [call |-> "connect", given |-> outcome,
                   ret |-> McpClient_connect(outcome),
                   stream |-> IF McpClient_connect(outcome).ok THEN "some" ELSE "none",
                   peer |-> IF outcome = "refused" THEN "none" ELSE "up"] >>
    /\ UNCHANGED <<life, conn, ran, store>>

\* client.list_tools() / client.call_tool(..) by a caller that holds the
\* McpClient: the write reaches a peer that is up, and fails or is lost once
\* the peer is gone; a peer that is gone delivers nothing more.
LibCall(method, written, arrives) ==
    /\ dlog # <<>>
    /\ Len(dlog) <= MaxReq
    /\ LastCall.peer = "up" => written = "written"
    /\ LastCall.peer # "up" => arrives \in {Eof, Reset}
    /\ LastCall.stream = "none" => written = "written" /\ arrives = Eof
    /\ dlog' = Append(dlog,
                 [call |-> method, given |-> arrives,
                  ret |-> McpClient_call(LastCall.stream, written, arrives),
                  stream |-> LastCall.stream,
                  peer |-> IF LastCall.peer = "up" /\ arrives.read \in {"eof", "reset"}
                           THEN "gone" ELSE LastCall.peer])
    /\ UNCHANGED <<life, conn, ran, store>>

NextLib ==
    \/ \E o \in {"accepted", "refused"} : LibConnect(o)
    \/ \E m \in LibMethods, w \in {"written", "broken"}, a \in Arrivals : LibCall(m, w, a)

SpecLib == Init /\ [][NextLib]_vars

\* ================================================== the OAuth token store
Providers == {"claude-max", "anthropic-oauth"}

\* struct OAuthToken (the two optional fields are None throughout).
OAuthToken(p, access, refresh, expires) ==
    [provider_id |-> p, access_token |-> access, refresh_token |-> refresh,
     expires_at |-> expires]

\* Tokens handed to save.
SavedTokens ==
    { OAuthToken("claude-max", "access-123", "refresh-456", 1),
      OAuthToken("claude-max", "access-789", "refresh-000", 1),
      OAuthToken("anthropic-oauth", "access-abc", "refresh-def", 1) }

\* HashMap<String, OAuthToken>, as the Option that get(provider) gives.
EmptyTokens == [p \in Providers |-> NoneValue]
insert(tokens, t) == [tokens EXCEPT ![t.provider_id] = SomeValue(t)]
remove(tokens, p) == [tokens EXCEPT ![p] = NoneValue]

\* The token file: absent, or the JSON of a map.
NoFile        == [kind |-> "absent"]
TokenFile(ts) == [kind |-> "json", tokens |-> ts]

\* Where a method of TokenStore is called from.  Handle::current() panics on
\* a thread outside any runtime, and Handle::block_on panics on a thread that
\* is driving tasks (an async fn, a Runtime::block_on body); the methods run
\* only on a thread that has the runtime entered without driving it.
Contexts == {"blocking", "async", "outside"}
Panics(ctx) == ctx # "blocking"

\* Two threads share the store (TokenStore is Clone over one Arc).
Callers == {1, 2}
Calling(i, cmd, pc, args) == [IdleInv EXCEPT !.cmd = cmd, !.pc = pc, !.args = args]

\* The calls made so far.
Calls == {k \in 1..Len(dlog) : dlog[k].ev # "fs::write"}
MayCall(i) ==
    /\ store.made
    /\ inv[i].pc = "idle"
    /\ Cardinality(Calls) < MaxReq

Called(i, ev, ctx, p, t, result) ==
    Append(dlog, [ev |-> ev, by |-> i, ctx |-> ctx, provider |-> p, token |-> t,
                  panicked |-> Panics(ctx), result |-> result])

\* A call from a context where block_on panics: nothing of the method runs.
Panic(i, ev, ctx, p, t) ==
    /\ inv' = [inv EXCEPT ![i] = Calling(i, "none", "panicked", <<>>)]
    /\ dlog' = Called(i, ev, ctx, p, t, NoneValue)
    /\ UNCHANGED store

\* The first block_on of save / remove / remove_all_tokens: take the write
\* lock (no reader holds the map), change the map, drop the lock; persist
\* is still to come.
Update(i, ev, ctx, p, t, tokens) ==
    /\ store.readers = {}
    /\ store' = [store EXCEPT !.tokens = tokens]
    /\ inv' = [inv EXCEPT ![i] = Calling(i, ev, "persist", <<>>)]
    /\ dlog' = Called(i, ev, ctx, p, t, NoneValue)

\* TokenStore::new: the map is read from the token file when there is one.
TokenStoreNew(file) ==
    /\ ~store.made
    /\ store' = [made |-> TRUE,
                 tokens |-> IF file.kind = "json" THEN file.tokens ELSE EmptyTokens,
                 file |-> file,
                 readers |-> {}]
    /\ UNCHANGED <<life, conn, ran, dlog>>

\* TokenStore::save
Save(i, t, ctx) ==
    /\ MayCall(i)
    /\ IF Panics(ctx) THEN Panic(i, "save", ctx, t.provider_id, SomeValue(t))
       ELSE Update(i, "save", ctx, t.provider_id, SomeValue(t), insert(store.tokens, t))
    /\ UNCHANGED <<lockFile, logGen, srv, other, conn, ran>>

\* TokenStore::remove
Remove(i, p, ctx) ==
    /\ MayCall(i)
    /\ IF Panics(ctx) THEN Panic(i, "remove", ctx, p, NoneValue)
       ELSE Update(i, "remove", ctx, p, NoneValue, remove(store.tokens, p))
    /\ UNCHANGED <<lockFile, logGen, srv, other, conn, ran>>

\* TokenStore::remove_all_tokens
RemoveAllTokens(i, ctx) ==
    /\ MayCall(i)
    /\ IF Panics(ctx) THEN Panic(i, "remove_all_tokens", ctx, "", NoneValue)
       ELSE Update(i, "remove_all_tokens", ctx, "", NoneValue, EmptyTokens)
    /\ UNCHANGED <<lockFile, logGen, srv, other, conn, ran>>

\* TokenStore::get: under the read lock, which no one else's read lock bars.
Get(i, p, ctx) ==
    /\ MayCall(i)
    /\ IF Panics(ctx) THEN Panic(i, "get", ctx, p, NoneValue)
       ELSE /\ dlog' = Called(i, "get", ctx, p, NoneValue, store.tokens[p])
            /\ UNCHANGED <<inv, store>>
    /\ UNCHANGED <<lockFile, logGen, srv, other, conn, ran>>

\* TokenStore::persist, first half: self.tokens.read().await and
\* to_string_pretty of the map under the guard.
PersistLock(i) ==
    /\ inv[i].pc = "persist"
    /\ store' = [store EXCEPT !.readers = @ \cup {i}]
    /\ inv' = [inv EXCEPT ![i].pc = "fs_write", ![i].args = <<store.tokens>>]
    /\ UNCHANGED <<lockFile, logGen, srv, other, conn, ran, dlog>>

\* TokenStore::persist, second half: fs::write of the JSON (and the chmod to
\* 0600) with the guard of the first half still alive; the guard is dropped
\* when the block ends, with Ok or with the error.
PersistWrite(i, ok) ==
    /\ inv[i].pc = "fs_write"
    /\ dlog' = Append(dlog, [ev |-> "fs::write", by |-> i, call |-> inv[i].cmd,
                             held |-> store.readers,
                             result |-> IF ok THEN "Ok" ELSE "Err"])
    /\ store' = [store EXCEPT !.readers = @ \ {i},
                              !.file = IF ok THEN TokenFile(inv[i].args[1]) ELSE @]
    /\ inv' = [inv EXCEPT ![i] = IdleInv]
    /\ UNCHANGED <<lockFile, logGen, srv, other, conn, ran>>

NextToken ==
    \/ \E f \in {NoFile, TokenFile(insert(EmptyTokens,
                     OAuthToken("claude-max", "access-old", "refresh-old", 1)))} :
          TokenStoreNew(f)
    \/ \E i \in Callers, t \in SavedTokens, c \in Contexts : Save(i, t, c)
    \/ \E i \in Callers, p \in Providers, c \in Contexts : Remove(i, p, c)
    \/ \E i \in Callers, c \in Contexts : RemoveAllTokens(i, c)
    \/ \E i \in Callers, p \in Providers, c \in Contexts : Get(i, p, c)
    \/ \E i \in Callers : PersistLock(i)
    \/ \E i \in Callers, ok \in BOOLEAN : PersistWrite(i, ok)

SpecToken == Init /\ [][NextToken]_vars

\* ------------------------------------------------------------ token expiry
\* Time is counted in minutes; chrono::Duration::minutes(5) is the buffer of
\* needs_refresh.
REFRESH_BUFFER == 5
MaxTime == 12
Times == 0..MaxTime

needs_refresh_NoBuffer(token, now) == now >= token.expires_at

\* OAuthToken::is_expired / needs_refresh, with `now` the reading of Utc::now().
is_expired(token, now)    == now >= token.expires_at
needs_refresh(token, now) == now + REFRESH_BUFFER >= token.expires_at

\* A token is asked both questions at one reading of the clock.
CheckExpiry(expires, now) ==
    /\ dlog = <<>>
    /\ LET token == OAuthToken("test", "token", "refresh", expires)
       IN dlog' = << [ev |-> "expiry", token |-> token, now |-> now,
                      is_expired |-> is_expired(token, now),
                      needs_refresh |-> needs_refresh(token, now)] >>
    /\ UNCHANGED <<life, conn, ran, store>>

NextExpiry == \E e \in Times, n \in Times : CheckExpiry(e, n)

SpecExpiry == Init /\ [][NextExpiry]_vars

\* ======================================================= client and server
\* RpcRequest / RpcNotification as serialized by serde (params: None is null).
RpcRequest(method, params) ==
    [jsonrpc |-> "2.0", id |-> REQUEST_ID, method |-> method, params |-> params]
RpcNotification(method) ==
    [jsonrpc |-> "2.0", method |-> method, params |-> "null"]
IsRequest(m) == {"id", "method"} \subseteq DOMAIN m
IsNotification(m) == "method" \in DOMAIN m /\ "id" \notin DOMAIN m

\* The server's response to a request: the handler's Ok is `result`, its Err is `error`.
Response(id, reply) ==
    IF reply.ret = "Ok"
    THEN [jsonrpc |-> "2.0", id |-> id, result |-> reply.value]
    ELSE [jsonrpc |-> "2.0", id |-> id, error |-> reply.error]

\* serde_json::from_str::<RpcResponse>: the untagged RpcResult is Success when
\* the line has `result`, Error when it has an `error` with code and message.
ParseResponse(line) ==
    IF "result" \in DOMAIN line
    THEN [ok |-> TRUE, result |-> [Success |-> line.result]]
    ELSE IF "error" \in DOMAIN line /\ {"code", "message"} \subseteq DOMAIN line.error
         THEN [ok |-> TRUE, result |-> [Error |-> line.error]]
         ELSE [ok |-> FALSE]

\* Position of the first '=' of a at or after k (0: none).
RECURSIVE FirstEq(_, _)
FirstEq(a, k) ==
    IF k > Len(a) THEN 0
    ELSE IF SubSeq(a, k, k) = "=" THEN k ELSE FirstEq(a, k + 1)

\* run_client_command, lines 194-205: key=value arguments into a JSON object of
\* strings, a later key replacing an earlier one; an argument without '=' is an error.
RECURSIVE ParseParams(_, _, _)
ParseParams(argv, k, map) ==
    IF k > Len(argv) THEN [ok |-> TRUE, map |-> map]
    ELSE LET a == argv[k]
             p == FirstEq(a, 1)
             key == SubSeq(a, 1, p - 1)
             val == JStr(SubSeq(a, p + 1, Len(a)))
         IN IF p = 0 THEN [ok |-> FALSE, map |-> map]
            ELSE ParseParams(argv, k + 1,
                     [x \in DOMAIN map \cup {key} |-> IF x = key THEN val ELSE map[x]])

\* Client commands run in one behaviour (they are invocations 1..MaxClient).
MaxClient == 1
Clients == 1..MaxClient

\* Command lines of the client commands (args[1] is the command).
ClientArgvs ==
    { <<"list">>, <<"call">>, <<"call", "nonexistent_tool">>,
      <<"call", "echo_message", "message=hi", "message=a=b">>,
      <<"call", "echo_message", "bogus">>, <<"call", "kill_process", "pid=7">> }

\* main_dispatcher: the operator runs `copilot_mcp_tool list` or `call ...`.
InvokeClient(i, argv) ==
    /\ inv[i].pc = "idle"
    /\ \A j \in Invs : j < i => inv[j].pc # "idle"
    /\ inv' = [inv EXCEPT ![i].cmd = argv[1], ![i].args = argv, ![i].pc = "check"]
    /\ UNCHANGED <<lockFile, logGen, srv, other, rest>>

IsClient(i) == inv[i].cmd \in {"list", "call"}

\* The process at the other end of connection i is alive.
PeerAlive(i) == srv[conn[i].to].pc \in {"bound", "accept"}

\* main, lines 100-103: an Err from run_client_command is logged and exits 1;
\* dropping the McpClient shuts the socket down.
Fail(i, why) == [inv EXCEPT ![i].pc = "done", ![i].out = why, ![i].exit = 1]
Shutdown(i) == [conn EXCEPT ![i].st = IF conn[i].st = "open" THEN "shutdown" ELSE conn[i].st]

\* run_client_command, line 174.
ClientCheck(i) ==
    /\ IsClient(i)
    /\ inv[i].pc = "check"
    /\ IF server_is_running = None
       THEN inv' = [Fail(i, "ERR_NOT_RUNNING") EXCEPT ![i].saw = Saw]
       ELSE inv' = [inv EXCEPT ![i].pc = "connect", ![i].saw = Saw,
                               ![i].seen = server_is_running]
    /\ UNCHANGED <<lockFile, logGen, srv, other, rest>>

\* McpClient::connect: refused unless a live listener holds the port.
ClientConnect(i) ==
    /\ IsClient(i)
    /\ inv[i].pc = "connect"
    /\ LET L == {s \in Srvs : srv[s].pc \in {"bound", "accept"}
                              /\ srv[s].port = inv[i].seen.port}
       IN IF L = {}
          THEN inv' = Fail(i, "ERR_CONNECT") /\ UNCHANGED conn
          ELSE /\ inv' = [inv EXCEPT ![i].pc = "initialize"]
               /\ \E s \in L :
                     conn' = [conn EXCEPT ![i] = [NoConn EXCEPT !.st = "open", !.to = s,
                                                               !.hs = "Queued"]]
    /\ UNCHANGED <<lockFile, logGen, srv, other, ran, store, dlog>>

\* stream.write_all of one line: to a live peer it is delivered; to a dead one
\* it either fails (the `?` ends the command) or is accepted and lost.
SendLine(i, msg, next) ==
    \/ /\ PeerAlive(i)
       /\ conn' = [conn EXCEPT ![i].c2s = Append(@, msg),
                               ![i].ev = Append(@, [e |-> "send", m |-> msg])]
       /\ inv' = [inv EXCEPT ![i].pc = next]
    \/ /\ ~PeerAlive(i)
       /\ conn' = [conn EXCEPT ![i].ev = Append(@, [e |-> "send", m |-> msg])]
       /\ inv' = [inv EXCEPT ![i].pc = next]
    \/ /\ ~PeerAlive(i)
       /\ conn' = Shutdown(i)
       /\ inv' = Fail(i, "ERR_WRITE")

\* What receive_response does with the line it read.
\* receive_response reads through a BufReader of its own: the reader's first
\* read takes what has arrived on the socket (all of it, the lines being far
\* shorter than the 8 KiB buffer), read_line hands out the first line, and
\* what is left in the buffer goes when the reader is dropped at the return.
AfterReadLine(arrived) == <<>>

Received(i, line, next, o, e) ==
    IF ParseResponse(line).ok
    THEN /\ inv' = [inv EXCEPT ![i].pc = next, ![i].out = o, ![i].exit = e]
         /\ conn' = [conn EXCEPT ![i].s2c = AfterReadLine(@),
                                 ![i].ev = Append(@, [e |-> "recv", m |-> line]),
                                 ![i].st = IF next = "done" THEN "shutdown" ELSE @]
    ELSE /\ inv' = Fail(i, "ERR_PARSE")
         /\ conn' = [Shutdown(i) EXCEPT ![i].s2c = AfterReadLine(@)]

\* A receive_response that goes on after a line it could not read.
ReceiveResponse_IgnoreFailure(i, next, o, e) ==
    \/ /\ conn[i].s2c # <<>>
       /\ Received(i, Head(conn[i].s2c), next, o, e)
    \/ /\ conn[i].s2c = <<>>
       /\ ~PeerAlive(i)
       /\ conn' = conn
       /\ inv' = [inv EXCEPT ![i].pc = next, ![i].out = o, ![i].exit = e]

\* McpClient::receive_response: blocks for one line; end of stream (the peer is
\* gone) reads as an empty line, which does not parse.
ReceiveResponse(i, next, o, e) ==
    \/ /\ conn[i].s2c # <<>>
       /\ Received(i, Head(conn[i].s2c), next, o, e)
    \/ /\ conn[i].s2c = <<>>
       /\ ~PeerAlive(i)
       /\ conn' = Shutdown(i)
       /\ inv' = Fail(i, "ERR_EOF")

\* InitializeRequestParam of McpClient::initialize.
InitializeParams ==
    [protocolVersion |-> "LATEST", clientInfo |-> "copilot_mcp_tool_client"]

\* A McpClient::initialize that does not wait for the response.
ClientInitializeSend_Pipelined(i) ==
    /\ IsClient(i)
    /\ inv[i].pc = "initialize"
    /\ SendLine(i, RpcRequest("initialize", InitializeParams), "notify")
    /\ UNCHANGED <<lockFile, logGen, srv, other, ran, store, dlog>>

\* McpClient::initialize, lines 105-106: send_request("initialize").
ClientInitializeSend(i) ==
    /\ IsClient(i)
    /\ inv[i].pc = "initialize"
    /\ SendLine(i, RpcRequest("initialize", InitializeParams), "init_recv")
    /\ UNCHANGED <<lockFile, logGen, srv, other, ran, store, dlog>>

\* McpClient::initialize, line 107: receive_response.
ClientInitializeRecv(i) ==
    /\ IsClient(i)
    /\ inv[i].pc = "init_recv"
    /\ ReceiveResponse(i, "notify", "", 0)
    /\ UNCHANGED <<lockFile, logGen, srv, other, ran, store, dlog>>

\* McpClient::initialized_notification.
ClientNotify(i) ==
    /\ IsClient(i)
    /\ inv[i].pc = "notify"
    /\ SendLine(i, RpcNotification("notifications/initialized"), "command")
    /\ UNCHANGED <<lockFile, logGen, srv, other, ran, store, dlog>>

\* The params of McpClient::call_tool.
CallParams(name, map) == [name |-> name, arguments |-> SomeArgs(map)]

\* A `call` that sends what it could parse when an argument has no '='.
ClientCommandSend_Lenient(i) ==
    /\ IsClient(i)
    /\ inv[i].pc = "command"
    /\ LET argv == inv[i].args
           parsed == ParseParams(argv, 3, EmptyMap)
       IN IF inv[i].cmd = "list"
          THEN SendLine(i, RpcRequest("tools/list", EmptyMap), "cmd_recv")
          ELSE IF Len(argv) < 2
               THEN inv' = Fail(i, "ERR_ARGS") /\ conn' = Shutdown(i)
               ELSE SendLine(i, RpcRequest("tools/call", CallParams(argv[2], parsed.map)),
                             "cmd_recv")
    /\ UNCHANGED <<lockFile, logGen, srv, other, ran, store, dlog>>

\* run_client_command, lines 185-209, up to the request: `list` sends
\* tools/list; `call` needs a tool name and key=value arguments, then sends tools/call.
ClientCommandSend(i) ==
    /\ IsClient(i)
    /\ inv[i].pc = "command"
    /\ LET argv == inv[i].args
           parsed == ParseParams(argv, 3, EmptyMap)
       IN IF inv[i].cmd = "list"
          THEN SendLine(i, RpcRequest("tools/list", EmptyMap), "cmd_recv")
          ELSE IF Len(argv) < 2 \/ ~parsed.ok
               THEN inv' = Fail(i, "ERR_ARGS") /\ conn' = Shutdown(i)
               ELSE SendLine(i, RpcRequest("tools/call", CallParams(argv[2], parsed.map)),
                             "cmd_recv")
    /\ UNCHANGED <<lockFile, logGen, srv, other, ran, store, dlog>>

\* list_tools / call_tool, receive_response, then the result is printed and
\* run_client_command returns Ok.
ClientCommandRecv(i) ==
    /\ IsClient(i)
    /\ inv[i].pc = "cmd_recv"
    /\ ReceiveResponse(i, "done", "PRINTED", 0)
    /\ UNCHANGED <<lockFile, logGen, srv, other, ran, store, dlog>>

\* ------------------------------------------------------ a peer that stalls
\* Connections that are not made by the CLI: any local program can connect to
\* the listener.
Peers == Invs \ Clients

\* A peer connects to a listening server and sends nothing.
PeerConnect(j) ==
    /\ conn[j].st = "none"
    /\ \E s \in Srvs :
          /\ srv[s].pc \in {"bound", "accept"}
          /\ conn' = [conn EXCEPT ![j] = [NoConn EXCEPT !.st = "open", !.to = s,
                                                        !.hs = "Queued"]]
    /\ UNCHANGED <<life, ran, store, dlog>>

\* The peer sends initialize, and then nothing more.
PeerSendInitialize(j) ==
    /\ conn[j].st = "open"
    /\ conn[j].ev = <<>>
    /\ PeerAlive(j)
    /\ conn' = [conn EXCEPT
                  ![j].c2s = Append(@, RpcRequest("initialize", InitializeParams)),
                  ![j].ev = Append(@, [e |-> "send",
                                       m |-> RpcRequest("initialize", InitializeParams)])]
    /\ UNCHANGED <<life, ran, store, dlog>>

\* The task of connection j waits in a read for a peer that sends nothing.
Stalled(j) ==
    /\ j \in Peers
    /\ conn[j].st = "open"
    /\ conn[j].hs \in {"Accepted", "Handshaking"}
    /\ conn[j].c2s = <<>>
    /\ srv[conn[j].to].pc = "accept"
StalledNow == {j \in Invs : Stalled(j)}

\* ---------------------------------------------- the server's connection task
\* A server that serves a connection inside its accept loop, the next one
\* only when that one is closed.
Serving_OneAtATime(i) ==
    /\ conn[i].st # "none"
    /\ srv[conn[i].to].pc = "accept"
    /\ \A j \in Invs \ {i} :
          conn[j].to = conn[i].to => conn[j].hs \notin {"Accepted", "Handshaking", "Ready"}

\* The task of connection i runs in a server that is in its accept loop.
Serving(i) ==
    /\ conn[i].st # "none"
    /\ srv[conn[i].to].pc = "accept"

\* run_server, lines 323-326: accept, spawn the task that serves the stream.
ServerAccept(i) ==
    /\ Serving(i)
    /\ conn[i].hs = "Queued"
    /\ conn' = [conn EXCEPT ![i].hs = "Accepted", ![i].over = StalledNow]
    /\ UNCHANGED <<life, ran, store, dlog>>

\* What the server tells about itself in answer to initialize.
InitializeResult == Ok([serverInfo |-> "rmcp", capabilities |-> "default"], <<>>)

Answer(i, reply) ==
    [conn EXCEPT ![i].c2s = Tail(@),
                 ![i].s2c = Append(@, Response(Head(conn[i].c2s).id, reply)),
                 ![i].served = Append(@, [req |-> Head(conn[i].c2s),
                                          resp |-> Response(Head(conn[i].c2s).id, reply),
                                          stalled |-> StalledNow])]

\* serve(stream), step 1 and 2 of the handshake: the initialize request is answered.
ServeInitialize(i) ==
    /\ Serving(i)
    /\ conn[i].hs = "Accepted"
    /\ conn[i].c2s # <<>>
    /\ IsRequest(Head(conn[i].c2s))
    /\ Head(conn[i].c2s).method = "initialize"
    /\ conn' = [Answer(i, InitializeResult) EXCEPT ![i].hs = "Handshaking"]
    /\ UNCHANGED <<life, ran, store, dlog>>

\* A server that acknowledges the initialized notification with a response.
ServeInitialized_Replies(i) ==
    /\ Serving(i)
    /\ conn[i].hs = "Handshaking"
    /\ conn[i].c2s # <<>>
    /\ IsNotification(Head(conn[i].c2s))
    /\ conn' = [conn EXCEPT ![i].c2s = Tail(@), ![i].hs = "Ready",
                  ![i].s2c = Append(@, [jsonrpc |-> "2.0", id |-> REQUEST_ID,
                                        result |-> EmptyMap])]
    /\ UNCHANGED <<life, ran, store, dlog>>

\* serve(stream), step 3: the initialized notification makes the service run;
\* nothing is sent back.
ServeInitialized(i) ==
    /\ Serving(i)
    /\ conn[i].hs = "Handshaking"
    /\ conn[i].c2s # <<>>
    /\ IsNotification(Head(conn[i].c2s))
    /\ Head(conn[i].c2s).method = "notifications/initialized"
    /\ conn' = [conn EXCEPT ![i].c2s = Tail(@), ![i].hs = "Ready"]
    /\ UNCHANGED <<life, ran, store, dlog>>

\* The ServerHandler method a request is routed to.
Handle(m) ==
    CASE m.method = "tools/list" -> list_tools
      [] m.method = "tools/call" -> call_tool(m.params.name, m.params.arguments)
      [] OTHER -> Err(McpError(METHOD_NOT_FOUND, m.method))

\* A server that exits when a handler returns an error.
ServeRequest_ExitOnError(i) ==
    /\ Serving(i)
    /\ conn[i].hs = "Ready"
    /\ conn[i].c2s # <<>>
    /\ IsRequest(Head(conn[i].c2s))
    /\ conn' = Answer(i, Handle(Head(conn[i].c2s)))
    /\ ran' = ran \o Handle(Head(conn[i].c2s)).ran
    /\ UNCHANGED store
    /\ srv' = IF Handle(Head(conn[i].c2s)).ret = "Err"
              THEN [srv EXCEPT ![conn[i].to] = Gone("exited")] ELSE srv
    /\ UNCHANGED <<lockFile, logGen, other, inv, dlog>>

\* running_service.waiting(): one request is dispatched and answered with its id.
ServeRequest(i) ==
    /\ Serving(i)
    /\ conn[i].hs = "Ready"
    /\ conn[i].c2s # <<>>
    /\ IsRequest(Head(conn[i].c2s))
    /\ conn' = Answer(i, Handle(Head(conn[i].c2s)))
    /\ ran' = ran \o Handle(Head(conn[i].c2s)).ran
    /\ UNCHANGED store
    /\ UNCHANGED <<life, dlog>>

\* The client has shut the stream down and all it sent is read: the task ends.
ServeClose(i) ==
    /\ Serving(i)
    /\ conn[i].hs \in {"Accepted", "Handshaking", "Ready"}
    /\ conn[i].st = "shutdown"
    /\ conn[i].c2s = <<>>
    /\ conn' = [conn EXCEPT ![i].hs = "Closed"]
    /\ UNCHANGED <<life, ran, store, dlog>>

NextConn ==
    \/ \E i \in Clients, a \in ClientArgvs : InvokeClient(i, a)
    \/ \E i \in Clients : ClientCheck(i)
    \/ \E i \in Clients : ClientConnect(i)
    \/ \E i \in Clients : ClientInitializeSend(i)
    \/ \E i \in Clients : ClientInitializeRecv(i)
    \/ \E i \in Clients : ClientNotify(i)
    \/ \E i \in Clients : ClientCommandSend(i)
    \/ \E i \in Clients : ClientCommandRecv(i)
    \/ \E i \in Invs : ServerAccept(i)
    \/ \E i \in Invs : ServeInitialize(i)
    \/ \E i \in Invs : ServeInitialized(i)
    \/ \E i \in Invs : ServeRequest(i)
    \/ \E i \in Invs : ServeClose(i)
    \/ \E j \in Peers : PeerConnect(j)
    \/ \E j \in Peers : PeerSendInitialize(j)
    \/ \E s \in Srvs : ServerDie(s)

SpecConn == Init /\ [][NextConn]_vars

\* The CLI clients and the server alone: no other program connects.
NextCli ==
    \/ \E i \in Clients, a \in ClientArgvs : InvokeClient(i, a)
    \/ \E i \in Clients : ClientCheck(i)
    \/ \E i \in Clients : ClientConnect(i)
    \/ \E i \in Clients : ClientInitializeSend(i)
    \/ \E i \in Clients : ClientInitializeRecv(i)
    \/ \E i \in Clients : ClientNotify(i)
    \/ \E i \in Clients : ClientCommandSend(i)
    \/ \E i \in Clients : ClientCommandRecv(i)
    \/ \E i \in Clients : ServerAccept(i)
    \/ \E i \in Clients : ServeInitialize(i)
    \/ \E i \in Clients : ServeInitialized(i)
    \/ \E i \in Clients : ServeRequest(i)
    \/ \E i \in Clients : ServeClose(i)
    \/ \E s \in Srvs : ServerDie(s)

SpecCli == Init /\ [][NextCli]_vars

\* ------------------------------------------- a peer that keeps a session open
\* What a peer that is not the CLI (an MCP client library, a script) may call
\* on one connection, one call after the other.
PeerCalls ==
    { [name |-> "nonexistent_tool", arguments |-> SomeArgs(EmptyMap)],
      [name |-> "echo_message", arguments |-> NoneArgs],
      [name |-> "kill_process", arguments |-> SomeArgs([pid |-> JNum(7)])] }

PeerSend(j, msg) ==
    [conn EXCEPT ![j].c2s = Append(@, msg),
                 ![j].ev = Append(@, [e |-> "send", m |-> msg])]

\* The peer completes the handshake from its side.
PeerSendInitialized(j) ==
    /\ conn[j].st = "open"
    /\ Len(conn[j].ev) = 1
    /\ PeerAlive(j)
    /\ conn' = PeerSend(j, RpcNotification("notifications/initialized"))
    /\ UNCHANGED <<life, ran, store, dlog>>

\* The peer sends a tools/call, up to MaxReq of them on the connection.
PeerSendCall(j, c) ==
    /\ conn[j].st = "open"
    /\ Len(conn[j].ev) >= 2
    /\ Len(conn[j].ev) < 2 + MaxReq
    /\ PeerAlive(j)
    /\ conn' = PeerSend(j, RpcRequest("tools/call", c))
    /\ UNCHANGED <<life, ran, store, dlog>>

\* The peer closes its end.
PeerClose(j) ==
    /\ conn[j].st = "open"
    /\ conn' = [conn EXCEPT ![j].st = "shutdown"]
    /\ UNCHANGED <<life, ran, store, dlog>>

NextPeer ==
    \/ \E j \in Clients : PeerConnect(j)
    \/ \E j \in Clients : PeerSendInitialize(j)
    \/ \E j \in Clients : PeerSendInitialized(j)
    \/ \E j \in Clients, c \in PeerCalls : PeerSendCall(j, c)
    \/ \E j \in Clients : PeerClose(j)
    \/ \E i \in Clients : ServerAccept(i)
    \/ \E i \in Clients : ServeInitialize(i)
    \/ \E i \in Clients : ServeInitialized(i)
    \/ \E i \in Clients : ServeRequest(i)
    \/ \E i \in Clients : ServeClose(i)
    \/ \E s \in Srvs : ServerDie(s)

SpecPeer == Init /\ [][NextPeer]_vars

\* ---------------------------------------- a peer that writes ahead of the reads
\* Lines a peer may write on the connection without waiting to be asked.
WrittenLines ==
    { ResponseLine([result |-> JStr("first")]),
      ResponseLine([result |-> JStr("second")]),
      ResponseLine([error |-> [code |-> METHOD_NOT_FOUND, message |-> "tools/call"]]) }

\* The client of this connection is a caller that holds a connected McpClient.
Reader == 1

\* The peer writes a line and it arrives at the client's socket.
PeerWriteAhead(l) ==
    /\ Len(conn[Reader].ev) <= MaxReq
    /\ conn' = [conn EXCEPT ![Reader].s2c = Append(@, l),
                            ![Reader].ev = Append(@, [e |-> "written", m |-> l])]
    /\ UNCHANGED <<life, ran, dlog, store>>

\* client.receive_response(), which blocks until something has arrived.
ReadResponse ==
    /\ conn[Reader].s2c # <<>>
    /\ dlog' = Append(dlog, [line |-> Head(conn[Reader].s2c),
                             ret |-> McpClient_receive_response("some",
                                                                Head(conn[Reader].s2c))])
    /\ conn' = [conn EXCEPT ![Reader].s2c = AfterReadLine(@)]
    /\ UNCHANGED <<life, ran, store>>

NextRead ==
    \/ \E l \in WrittenLines : PeerWriteAhead(l)
    \/ ReadResponse

SpecRead == Init /\ [][NextRead]_vars

\* ------------------------------------------------- the life of a connection
\* Two connections: one can end while the other goes on.
Tasks == {1, 2}

\* A line that is not a JSON-RPC message.
Undecodable == [bad |-> "not json"]

\* The peer of connection j has written an undecodable line.
SentUndecodable(j) == \E k \in 1..Len(conn[j].ev) : conn[j].ev[k].m = Undecodable

\* The peer writes a line that does not decode; what it writes after it is
\* never read, so it writes nothing more.
PeerSendUndecodable(j) ==
    /\ conn[j].st = "open"
    /\ PeerAlive(j)
    /\ ~SentUndecodable(j)
    /\ conn' = PeerSend(j, Undecodable)
    /\ UNCHANGED <<life, ran, store, dlog>>

\* A peer that has written an undecodable line writes nothing after it.
PeerWrites(j) == ~SentUndecodable(j)

\* A task that skips a line it cannot decode and reads on.
ServeUndecodable_Skip(i) ==
    /\ Serving(i)
    /\ conn[i].hs \in {"Accepted", "Handshaking", "Ready"}
    /\ conn[i].c2s # <<>>
    /\ Head(conn[i].c2s) = Undecodable
    /\ conn' = [conn EXCEPT ![i].c2s = Tail(@)]
    /\ UNCHANGED <<life, ran, store, dlog>>

\* serve(stream) or waiting() returns on a line that does not decode; the task
\* logs it and finishes, in the handshake as in the running service.
ServeUndecodable(i) ==
    /\ Serving(i)
    /\ conn[i].hs \in {"Accepted", "Handshaking", "Ready"}
    /\ conn[i].c2s # <<>>
    /\ Head(conn[i].c2s) = Undecodable
    /\ conn' = [conn EXCEPT ![i].c2s = Tail(@), ![i].hs = "Closed"]
    /\ UNCHANGED <<life, ran, store, dlog>>

\* One step of the accept loop for connection i, or of the task spawned for it.
TaskStep(i) ==
    \/ ServerAccept(i)
    \/ ServeInitialize(i)
    \/ ServeInitialized(i)
    \/ ServeRequest(i)
    \/ ServeUndecodable(i)
    \/ ServeClose(i)

NextTask ==
    \/ \E j \in Tasks : PeerConnect(j)
    \/ \E j \in Tasks : PeerWrites(j) /\ PeerSendInitialize(j)
    \/ \E j \in Tasks : PeerWrites(j) /\ PeerSendInitialized(j)
    \/ \E j \in Tasks : PeerWrites(j) /\ PeerSendCall(j, [name |-> "echo_message",
                                                          arguments |-> NoneArgs])
    \/ \E j \in Tasks : PeerSendUndecodable(j)
    \/ \E j \in Tasks : PeerClose(j)
    \/ \E i \in Tasks : ServerAccept(i)
    \/ \E i \in Tasks : ServeInitialize(i)
    \/ \E i \in Tasks : ServeInitialized(i)
    \/ \E i \in Tasks : ServeRequest(i)
    \/ \E i \in Tasks : ServeUndecodable(i)
    \/ \E i \in Tasks : ServeClose(i)
    \/ \E s \in Srvs : ServerDie(s)

SpecTask == Init /\ [][NextTask]_vars

\* tokio polls a spawned task, and the accept loop, whenever it can make progress.
FairTask == SpecTask /\ \A i \in Tasks : WF_vars(TaskStep(i))

\* ------------------------------------------------- the OAuth CSRF states
\* Values CsrfToken::new_random may give (none is the id of a provider), and
\* the provider ids a request may name: the configured ones and one that is not.
CsrfStates == {"csrf-1", "csrf-2"}
RequestedProviders == Providers \cup {"unknown"}

\* The handlers are async fns: they run on a thread that drives tasks (axum on
\* the tokio runtime), or under another executor on a thread that only has the
\* runtime entered.
HandlerContexts == {"async", "blocking"}

\* HashMap<String, String> csrf_states: state -> provider_id.
EmptyStates == [s \in CsrfStates |-> NoneValue]

\* PluginAppState with a fresh TokenStore, in a server whose handlers run in
\* context ctx; every provider of Providers is configured.
PluginAppStateNew(ctx) ==
    /\ ~store.made
    /\ store' = [made |-> TRUE, ctx |-> ctx, csrf_states |-> EmptyStates]
    /\ UNCHANGED <<life, conn, ran, dlog>>

\* The handler calls finished so far, and the room for one more.
Handled(ev, ctx, p, s, result) ==
    Append(dlog, [ev |-> ev, ctx |-> ctx, provider |-> p, state |-> s, result |-> result])
MayHandle(i) ==
    /\ store.made
    /\ inv[i].pc = "idle"
    /\ Len(dlog) + Cardinality({j \in Callers : inv[j].pc = "callback"}) <= MaxReq

\* The states handed out so far are not drawn again.
NewRandom(s) == \A k \in 1..Len(dlog) : dlog[k].ev = "oauth_start" => dlog[k].state # s

\* oauth_start: the provider must be configured; the authorize URL is built with
\* a new random state, save_csrf_token(provider, state) stores state -> provider,
\* and the browser is redirected.
oauth_start(i, p, s) ==
    /\ MayHandle(i)
    /\ NewRandom(s)
    /\ IF p \notin Providers
       THEN /\ dlog' = Handled("oauth_start", store.ctx, p, s, "Err: provider not found")
            /\ UNCHANGED store
       ELSE IF Panics(store.ctx)
            THEN /\ dlog' = Handled("oauth_start", store.ctx, p, s, "panic")
                 /\ UNCHANGED store
            ELSE /\ dlog' = Handled("oauth_start", store.ctx, p, s, "Redirect")
                 /\ store' = [store EXCEPT !.csrf_states[s] = SomeValue(p)]
    /\ UNCHANGED <<life, conn, ran>>

\* oauth_callback up to its await of the oauth_configs lock:
\* get_csrf_token_provider(&state) must find a provider.
oauth_callback_lookup(i, s) ==
    /\ MayHandle(i)
    /\ IF Panics(store.ctx)
       THEN /\ dlog' = Handled("oauth_callback", store.ctx, "", s, "panic")
            /\ UNCHANGED inv
       ELSE IF ~store.csrf_states[s].some
            THEN /\ dlog' = Handled("oauth_callback", store.ctx, "", s,
                                    "Err: Invalid or expired CSRF token")
                 /\ UNCHANGED inv
            ELSE /\ inv' = [inv EXCEPT ![i] = Calling(i, "oauth_callback", "callback",
                                                      <<s, store.csrf_states[s].value>>)]
                 /\ UNCHANGED dlog
    /\ UNCHANGED <<lockFile, logGen, srv, other, conn, ran, store>>

\* oauth_callback from the config lookup on: retrieve_csrf_token(&state) removes
\* the entry and returns its value, the provider id, which is then compared
\* with the state; only if they are equal does the handler go on to the token
\* exchange.
oauth_callback_validate(i) ==
    /\ inv[i].pc = "callback"
    /\ LET s == inv[i].args[1]
           provider == inv[i].args[2]
           csrf_token == store.csrf_states[s]
       IN /\ store' = [store EXCEPT !.csrf_states[s] = NoneValue]
          /\ dlog' = Handled("oauth_callback", store.ctx, provider, s,
                        IF ~csrf_token.some THEN "Err: CSRF token not found or expired"
                        ELSE IF csrf_token.value # s THEN "Err: CSRF token mismatch"
                        ELSE "exchange_code")
    /\ inv' = [inv EXCEPT ![i] = IdleInv]
    /\ UNCHANGED <<lockFile, logGen, srv, other, conn, ran>>

NextOAuth ==
    \/ \E c \in HandlerContexts : PluginAppStateNew(c)
    \/ \E i \in Callers, p \in RequestedProviders, s \in CsrfStates : oauth_start(i, p, s)
    \/ \E i \in Callers, s \in CsrfStates : oauth_callback_lookup(i, s)
    \/ \E i \in Callers : oauth_callback_validate(i)

SpecOAuth == Init /\ [][NextOAuth]_vars

\* ================================================================ claims
\* Invocation i takes the step that evaluates server_is_running().
Checks(i) == inv[i].pc = "check" /\ inv'[i].pc # "check"
\* Invocation i takes the show_status step that ends `start`.
Reports(i) == inv[i].pc = "sleep" /\ inv'[i].pc = "done"
\* The lock file names a process that is not in the process table.
StaleLock == lockFile.kind = "json" /\ lockFile.pid \notin Procs
Accepting == {s \in Srvs : srv[s].pc = "accept"}

\* C1: when `start` invocations that all found no live server have returned,
\* every server they spawned has finished its startup and none has died, then
\* exactly one server is in its accept loop and the lock file holds that
\* server's pid and port.
C1_ConcurrentStartsOneServer ==
    ( /\ \E i, j \in Invs : /\ i # j
                             /\ inv[i].cmd = "start" /\ inv[i].saw # "live"
                             /\ inv[j].cmd = "start" /\ inv[j].saw # "live"
      /\ \A i \in Invs : inv[i].cmd \in {"none", "start"}
      /\ \A i \in Invs : inv[i].cmd = "start" => inv[i].pc = "done"
      /\ \A s \in Srvs : srv[s].pc \in {"none", "accept"} )
    => /\ Cardinality(Accepting) = 1
       /\ \E s \in Accepting : lockFile = LockJson(srv[s].pid, srv[s].port)

\* C2: server_is_running() returns the stored record when the lock file parses
\* and its pid is in the process table, and None in every other case (dead
\* pid, no file, unparseable file); it always returns.
C2_ServerIsRunningVerdict ==
    [][\A i \in Invs : Checks(i) =>
          /\ (lockFile.kind = "json" /\ lockFile.pid \in Procs)
                => inv'[i].seen = LockData(lockFile.pid, lockFile.port)
          /\ (lockFile.kind # "json" \/ lockFile.pid \notin Procs)
                => inv'[i].seen = None]_vars

\* C2 witness: a stop that found a stale record and so got None.
C2_Witness ==
    \E i \in Invs : /\ inv[i].cmd = "stop" /\ inv[i].pc = "done"
                    /\ inv[i].saw = "stale" /\ inv[i].seen = None

\* C3: the steps that evaluate server_is_running() and the show_status step
\* leave the lock file as it is and neither start nor end any process.
C3_StatusLeavesLockFile ==
    [][\A i \in Invs : (Checks(i) \/ Reports(i)) =>
          lockFile' = lockFile /\ srv' = srv /\ other' = other]_vars

\* C3 witness: `status` has reported STOPPED for a stale record that is still there.
C3_Witness ==
    \E i \in Invs : /\ inv[i].cmd = "status" /\ inv[i].pc = "done"
                    /\ inv[i].saw = "stale" /\ inv[i].out = "STOPPED"
                    /\ StaleLock

C5_StartIdempotentWhileLive ==
    [][\A i \in Invs :
          /\ (inv[i].cmd = "start" /\ Checks(i)
                /\ lockFile.kind = "json" /\ lockFile.pid \in Procs)
                => /\ inv'[i].pc = "done" /\ inv'[i].exit = 0
                   /\ lockFile' = lockFile /\ logGen' = logGen
                   /\ srv' = srv /\ other' = other
          /\ (inv[i].pc = "done" /\ inv[i].out = "ALREADY_RUNNING")
                => inv'[i] = inv[i] /\ srv'[i] = NoServer]_vars

\* C5 witness: two `start`s have both returned "already running" and the one
\* server is still the only one.
C5_Witness ==
    /\ \A i \in Invs : /\ inv[i].cmd = "start" /\ inv[i].pc = "done"
                       /\ inv[i].out = "ALREADY_RUNNING" /\ inv[i].exit = 0
    /\ Accepting = {0}
    /\ logGen = 0

\* C6: a `stop` that found a lock file holding a record (of a live server or a
\* stale one) and returns success leaves no lock file behind.
C6_StopDeletesLockFile ==
    [][\A i \in Invs :
          (/\ inv[i].cmd = "stop" /\ inv[i].pc # "done" /\ inv'[i].pc = "done"
           /\ inv'[i].exit = 0 /\ inv'[i].saw \in {"live", "stale"})
          => lockFile' = Absent]_vars

\* C7: a `stop` that finds no lock file returns success and changes nothing;
\* a `stop` that killed and returned success leaves no lock file, so the
\* next `stop` is of that kind.
C7_StopIdempotent ==
    [][\A i \in Invs :
          /\ (inv[i].cmd = "stop" /\ Checks(i) /\ lockFile = Absent)
                => /\ inv'[i].pc = "done" /\ inv'[i].exit = 0
                   /\ inv'[i].out = "NOT_RUNNING"
                   /\ lockFile' = lockFile /\ logGen' = logGen
                   /\ srv' = srv /\ other' = other
          /\ (inv[i].cmd = "stop" /\ inv[i].pc = "kill" /\ inv'[i].pc = "done"
                /\ inv'[i].exit = 0)
                => lockFile' = Absent /\ inv[i].seen.pid \notin Procs']_vars

\* C7 witness: stop followed by stop: the first stopped the server, the second
\* found nothing and returned success too.
C7_Witness ==
    \E i, j \in Invs :
        /\ inv[i].cmd = "stop" /\ inv[i].pc = "done" /\ inv[i].out = "SERVER_STOPPED"
        /\ inv[j].cmd = "stop" /\ inv[j].pc = "done" /\ inv[j].saw = "absent"
        /\ inv[i].exit = 0 /\ inv[j].exit = 0
        /\ lockFile = Absent

\* C10: a tools/call whose name is not a registered tool is answered with the
\* MethodNotFound error, whatever the arguments, and executes no tool body and
\* no backend call; the handler goes on answering.
C10_UnknownToolMethodNotFound ==
    /\ \A k \in 1..Len(dlog) :
          (dlog[k].method = "tools/call" /\ dlog[k].name \notin {"echo_message", "kill_process"})
          => /\ dlog[k].reply.ret = "Err"
             /\ dlog[k].reply.error.code = METHOD_NOT_FOUND
             /\ dlog[k].reply.ran = <<>>
    /\ \A k \in 1..Len(ran) : ran[k].tool \in {"echo_message", "kill_process"}
    /\ Len(ran) = Cardinality({k \in 1..Len(dlog) :
                                  /\ dlog[k].method = "tools/call"
                                  /\ dlog[k].name \in {"echo_message", "kill_process"}
                                  /\ dlog[k].reply.ret = "Ok"})

\* C10 witness: an unknown tool was refused and the next call was served.
C10_Witness ==
    /\ Len(dlog) = 2
    /\ dlog[1].name = "nonexistent_tool" /\ dlog[1].arguments = SomeArgs(EmptyMap)
    /\ dlog[1].reply = Err(McpError(METHOD_NOT_FOUND, "tools/call"))
    /\ dlog[2].reply.ret = "Ok"
    /\ Len(ran) = 1

\* ----------------------------------------------------------------- C11, C12
\* C11: echo_message with arguments {"message": m}, m a string, succeeds, and
\* the payload is the nine characters "Echoing: " followed by m, nothing else.
C11_EchoPayload ==
    \A k \in 1..Len(dlog) :
        LET a == dlog[k].arguments IN
        (/\ dlog[k].method = "tools/call"
         /\ dlog[k].name = "echo_message"
         /\ a.some
         /\ DOMAIN a.map = {"message"}
         /\ a.map["message"].j = "string")
        => LET m == a.map["message"].v
               r == dlog[k].reply
           IN /\ r.ret = "Ok"
              /\ ~r.value.isError
              /\ r.value.structuredContent.j = "string"
              /\ LET t == r.value.structuredContent.v
                 IN /\ Len(t) = 9 + Len(m)
                    /\ SubSeq(t, 1, 9) = "Echoing: "
                    /\ SubSeq(t, 10, Len(t)) = m

\* C11 witness: "hi" and the empty string were echoed.
C11_Witness ==
    /\ Len(dlog) = 2
    /\ dlog[1].name = "echo_message" /\ dlog[1].arguments = SomeArgs([message |-> JStr("hi")])
    /\ dlog[1].reply.ret = "Ok"
    /\ dlog[1].reply.value.structuredContent = JStr("Echoing: hi")
    /\ dlog[2].name = "echo_message"
    /\ dlog[2].arguments = SomeArgs([message |-> JStr("Echoing: a=b")])
    /\ dlog[2].reply.ret = "Ok"

\* The arguments have the input shape of the tool: a string `message` for
\* echo_message, a `pid` that is a number in the range of u32 for kill_process.
MatchesShape(name, a) ==
    /\ a.some
    /\ IF name = "echo_message"
       THEN "message" \in DOMAIN a.map /\ a.map["message"].j = "string"
       ELSE /\ "pid" \in DOMAIN a.map
            /\ a.map["pid"].j = "number"
            /\ a.map["pid"].v >= 0

\* C12: a registered tool called with arguments that do not match its input
\* shape (arguments omitted included) is answered with the InvalidParams
\* error carrying the deserializer's message, and neither the tool body nor
\* the backend runs for that call.
C12_ShapeMismatchInvalidParams ==
    /\ \A k \in 1..Len(dlog) :
          (/\ dlog[k].method = "tools/call"
           /\ dlog[k].name \in Registered
           /\ ~MatchesShape(dlog[k].name, dlog[k].arguments))
          => /\ dlog[k].reply.ret = "Err"
             /\ dlog[k].reply.error.code = INVALID_PARAMS
             /\ Len(dlog[k].reply.error.message) > 0
             /\ dlog[k].reply.ran = <<>>
    /\ Len(ran) = Cardinality({k \in 1..Len(dlog) :
                                  /\ dlog[k].method = "tools/call"
                                  /\ dlog[k].name \in Registered
                                  /\ MatchesShape(dlog[k].name, dlog[k].arguments)})

\* C12 witness: kill_process without arguments and echo_message with a number
\* as message were both refused, and nothing ran.
C12_Witness ==
    /\ Len(dlog) = 2
    /\ dlog[1].name = "kill_process" /\ dlog[1].arguments = NoneArgs
    /\ dlog[1].reply = Err(McpError(INVALID_PARAMS, "missing field pid"))
    /\ dlog[2].name = "echo_message"
    /\ dlog[2].arguments = SomeArgs([message |-> JNum(7)])
    /\ dlog[2].reply.ret = "Err"
    /\ ran = <<>>

\* ---------------------------------------------------------------------- C13
\* t occurs in s.
Contains(s, t) ==
    \E k \in 1..(Len(s) - Len(t) + 1) : SubSeq(s, k, k + Len(t) - 1) = t

\* C13 as stated: get_weather("TimeCity") embeds the Time tool's output, which
\* embeds the Echo tool's output for a derived message, the call going through
\* Weather, Time and Echo.  Refuted: the Time tool is handed "TimeCity" and
\* delegates for "EchoCity" only.
C13_WeatherTimeEchoChain ==
    \A k \in 1..Len(dlog) :
        (dlog[k].tool = "get_weather" /\ dlog[k].input = "TimeCity")
        => /\ Contains(dlog[k].out, get_time_in_location("TimeCity").out)
           /\ \E m \in Messages : Contains(dlog[k].out, echo(m).out)
           /\ dlog[k].calls = <<"get_weather", "get_time_in_location", "echo">>

\* ---------------------------------------------------------------------- C14
\* C14: every tools/list answer names echo_message then kill_process, each
\* once; these are exactly the names tools/call dispatches; and every answer
\* of the handler is the same, whatever calls were served in between.
C14_ListToolsStable ==
    \A k \in 1..Len(dlog) :
        dlog[k].method = "tools/list"
        => LET r == dlog[k].reply
               t == r.value.tools
           IN /\ r.ret = "Ok"
              /\ Len(t) = 2
              /\ t[1].name = "echo_message" /\ t[2].name = "kill_process"
              /\ \A a, b \in 1..Len(t) : t[a].name = t[b].name => a = b
              /\ \A n \in CallNames :
                    (\E a \in 1..Len(t) : t[a].name = n)
                    <=> ~(/\ call_tool(n, NoneArgs).ret = "Err"
                          /\ call_tool(n, NoneArgs).error.code = METHOD_NOT_FOUND)
              /\ \A j \in 1..Len(dlog) :
                    dlog[j].method = "tools/list" => dlog[j].reply = r

\* C14 witness: the tools were listed after a tool call was served.
C14_Witness ==
    /\ Len(dlog) = 2
    /\ dlog[1].method = "tools/call" /\ dlog[1].reply.ret = "Ok"
    /\ dlog[2].method = "tools/list"
    /\ Len(dlog[2].reply.value.tools) = 2

\* ---------------------------------------------------------------------- C15
\* C15 as stated: kill_process with a pid that names no process is answered
\* with an error result whose payload contains the operating system's failure
\* text of the kill attempt.  Refuted: the server's backend is
\* LibSystemCommand, which attempts no kill and reports "not yet implemented".
C15_KillFailureText ==
    \A k \in 1..Len(dlog) :
        (/\ dlog[k].method = "tools/call"
         /\ dlog[k].name = "kill_process"
         /\ MatchesShape("kill_process", dlog[k].arguments)
         /\ dlog[k].arguments.map["pid"].v \notin Procs)
        => LET r == dlog[k].reply IN
           /\ r.ret = "Ok"
           /\ r.value.isError
           /\ Contains(r.value.structuredContent.error,
                       BinSystemCommand_kill_process(dlog[k].arguments.map["pid"].v)
                           .structuredContent.stderr)

\* ------------------------------------------------------------------ C8, C9
\* What client i has written that asks for an answer, and the lines it took as answers.
SentRequests(i) == SelectSeq(conn[i].ev, LAMBDA x : x.e = "send" /\ IsRequest(x.m))
TakenAnswers(i) == SelectSeq(conn[i].ev, LAMBDA x : x.e = "recv")
IsToolRequest(x) == x.e = "send" /\ x.m.method \in {"tools/list", "tools/call"}
ServerStep(i) ==
    ServerAccept(i) \/ ServeInitialize(i) \/ ServeInitialized(i) \/ ServeRequest(i)
ClientRecvStep(i) == ClientInitializeRecv(i) \/ ClientCommandRecv(i)

\* C8 as stated: every request yields exactly one response, so a client that has
\* finished has taken one answer for each request it sent.  Refuted: the server
\* process can die between the request and its response.
C8_EveryRequestAnswered ==
    \A i \in Clients :
        inv[i].pc = "done" => Len(TakenAnswers(i)) = Len(SentRequests(i))

\* C8, amended: every request yields at most one response, carrying the
\* request's id, and exactly one unless the server process dies first; the
\* notification yields none; the k-th line the client takes as an answer is the
\* response the server made for its k-th request.
C8_RequestResponsePairing ==
    \A i \in Clients :
        LET req == SentRequests(i)
            ans == TakenAnswers(i)
            sv  == conn[i].served
        IN /\ Len(sv) <= Len(req)
           /\ Len(ans) + Len(conn[i].s2c) = Len(sv)
           /\ \A k \in 1..Len(sv) :
                 /\ sv[k].req = req[k].m
                 /\ sv[k].resp.id = req[k].m.id
           /\ \A k \in 1..Len(ans) : ans[k].m = sv[k].resp
           /\ \A k \in 1..Len(conn[i].s2c) : conn[i].s2c[k] = sv[Len(ans) + k].resp
           /\ (inv[i].pc \in {"init_recv", "cmd_recv"} /\ Serving(i))
                 => ENABLED (ServerStep(i) \/ ClientRecvStep(i))
           /\ (inv[i].pc = "done" /\ inv[i].out = "PRINTED")
                 => (Len(ans) = Len(req) /\ Len(req) = 2)

\* C8 witness: a client sent initialize, the notification and tools/call, and
\* took two answers, the second one being the server's answer to tools/call.
C8_Witness ==
    \E i \in Clients :
        /\ inv[i].pc = "done"
        /\ inv[i].out = "PRINTED"
        /\ Len(conn[i].ev) = 5
        /\ conn[i].ev[4].m.method = "tools/call"
        /\ conn[i].ev[5].m = conn[i].served[2].resp

\* C9: a client writes a tools/* request only after it has written initialize,
\* taken one response line, and written notifications/initialized, in that
\* order; a command that failed before or in the handshake wrote no tools/* request.
C9_HandshakeBeforeTools ==
    \A i \in Clients :
        LET ev == conn[i].ev
        IN /\ \A k \in 1..Len(ev) :
                 IsToolRequest(ev[k]) =>
                     /\ k = 4
                     /\ ev[1].e = "send" /\ IsRequest(ev[1].m) /\ ev[1].m.method = "initialize"
                     /\ ev[2].e = "recv" /\ ParseResponse(ev[2].m).ok
                     /\ ev[3].e = "send" /\ IsNotification(ev[3].m)
                     /\ ev[3].m.method = "notifications/initialized"
           /\ (inv[i].pc = "done" /\ Len(TakenAnswers(i)) = 0)
                 => \A k \in 1..Len(ev) : ~IsToolRequest(ev[k])

\* C9 witness: the handshake broke (the server was gone before the initialize
\* response) and the command ended without a tools/* request.
C9_Witness ==
    \E i \in Clients :
        /\ inv[i].pc = "done"
        /\ inv[i].out = "ERR_EOF"
        /\ Len(conn[i].ev) = 1
        /\ conn[i].ev[1].m.method = "initialize"

\* ---------------------------------------------------------------------- C16
\* The answer the command of client i printed is an error: an error Response,
\* or a tool result flagged isError.
PrintedError(i) ==
    /\ inv[i].out = "PRINTED"
    /\ LET ans == TakenAnswers(i)
           last == ans[Len(ans)].m
       IN \/ "error" \in DOMAIN last
          \/ /\ "result" \in DOMAIN last
             /\ "isError" \in DOMAIN last.result
             /\ last.result.isError

\* C16 as stated: a list or call command that reports an error, a local one or
\* an error answer of the server, ends with a non-zero exit code.  Refuted:
\* run_client_command prints an error answer like any other and returns Ok.
C16_ErrorsExitNonZero ==
    \A i \in Clients :
        (inv[i].pc = "done" /\ (inv[i].out # "PRINTED" \/ PrintedError(i)))
        => inv[i].exit # 0

\* ---------------------------------------------------------------------- C17
\* C17 as stated: decoding the line that encoding m produced gives back m, for
\* a Request, a Notification and a Response with result or error; the line
\* ends in one newline and has no newline inside.  Refuted: no decoder of the
\* client reads a Notification back.
C17_CodecRoundTrip ==
    \A k \in 1..Len(dlog) :
        /\ [ok |-> TRUE, value |-> dlog[k].m] \in dlog[k].back
        /\ dlog[k].line.end = "\n"
        /\ \A f \in {"method"} \cap DOMAIN dlog[k].line.json :
              ~Contains(dlog[k].line.json[f], "\n")
        /\ "error" \in DOMAIN dlog[k].line.json
              => ~Contains(dlog[k].line.json.error.message, "\n")

\* ---------------------------------------------------------------------- C18
\* The lock record names a server that has finished its startup, and that
\* server listens on the recorded port.
RecordOfLiveServer ==
    \A s \in Srvs :
        (/\ lockFile.kind = "json"
         /\ srv[s].pc = "accept"
         /\ srv[s].pid = lockFile.pid)
        => /\ srv[s].port = lockFile.port
           /\ srv[s].port \in Ports
           /\ srv[s].port \in BoundPorts

\* C18: a record is written only by a server whose listener is bound, holds
\* that server's pid and bound port, and is written before the server enters
\* its accept loop; so the record of a server that is up always gives a port
\* that server listens on.
C18_LockAfterBindBeforeAccept ==
    [][ /\ \A s \in Srvs :
              (srv'[s].pc = "accept" /\ srv[s].pc # "accept")
              => /\ srv[s].pc = "bound"
                 /\ srv[s].port \in Ports
                 /\ lockFile' = LockJson(srv[s].pid, srv[s].port)
                 /\ srv'[s].pid = srv[s].pid /\ srv'[s].port = srv[s].port
        /\ (lockFile' # lockFile /\ lockFile'.kind = "json")
              => \E s \in Srvs : /\ srv[s].pc = "bound"
                                 /\ srv'[s].pc = "accept"
                                 /\ lockFile'.pid = srv[s].pid
                                 /\ lockFile'.port = srv[s].port
        /\ RecordOfLiveServer'
      ]_vars

\* C18 witness: a server spawned by `start` is in its accept loop and the
\* lock file holds its pid and port, after another server's record.
C18_Witness ==
    \E s \in Invs :
        /\ srv[s].pc = "accept"
        /\ lockFile = LockJson(srv[s].pid, srv[s].port)
        /\ srv[0].pc = "dead"

\* ---------------------------------------------------------------------- C19
\* C19: while the task of another connection is stalled in a read, a queued
\* connection can be accepted, and a client waiting for the answer to its
\* initialize or tools request gets the server's next step or its line.
C19_StalledPeerBlocksNoOne ==
    \A i \in Clients :
        (StalledNow \ {i} # {} /\ conn[i].st = "open" /\ srv[conn[i].to].pc = "accept")
        => /\ conn[i].hs = "Queued" => ENABLED ServerAccept(i)
           /\ inv[i].pc \in {"init_recv", "cmd_recv"}
                 => ENABLED (ServerStep(i) \/ ClientRecvStep(i))

\* C19 witness: a command was accepted, took its handshake and got its tools
\* answer, each of these while a peer's connection was stalled.
C19_Witness ==
    \E i \in Clients :
        /\ inv[i].pc = "done"
        /\ inv[i].out = "PRINTED"
        /\ conn[i].over # {}
        /\ Len(conn[i].served) = 2
        /\ conn[i].served[1].stalled # {}
        /\ conn[i].served[2].stalled # {}
        /\ StalledNow # {}

\* ---------------------------------------------------------------------- C20
\* The answer is an error: an error Response or a tool result flagged isError.
IsErrorAnswer(resp) ==
    \/ "error" \in DOMAIN resp
    \/ /\ "result" \in DOMAIN resp
       /\ "isError" \in DOMAIN resp.result
       /\ resp.result.isError

\* Connection i has had a tools/call answered with an error.
HadErrorAnswer(i) ==
    \E k \in 1..Len(conn[i].served) :
        /\ conn[i].served[k].req.method = "tools/call"
        /\ IsErrorAnswer(conn[i].served[k].resp)

\* C20: the step that answers a tools/call with an error (unknown tool,
\* invalid params, failed kill_process) leaves every server process as it was
\* and the connection in service; and on a connection that has had such an
\* answer, the next request that arrives is answered while the server runs.
C20_BadRequestKeepsService ==
    /\ [](\A i \in Clients :
            (/\ HadErrorAnswer(i)
             /\ conn[i].c2s # <<>>
             /\ srv[conn[i].to].pc = "accept")
            => /\ conn[i].hs = "Ready"
               /\ ENABLED ServeRequest(i))
    /\ [][\A i \in Clients :
            (/\ Len(conn'[i].served) = Len(conn[i].served) + 1
             /\ conn'[i].served[Len(conn'[i].served)].req.method = "tools/call"
             /\ IsErrorAnswer(conn'[i].served[Len(conn'[i].served)].resp))
            => /\ srv' = srv
               /\ srv'[conn[i].to].pc = "accept"
               /\ conn'[i].hs = "Ready"
               /\ conn'[i].st = conn[i].st
       ]_vars

\* C20 witness: on one connection an unknown tool was refused, then a
\* kill_process failed, and the third call was answered too.
C20_Witness ==
    \E i \in Clients :
        /\ Len(conn[i].served) = 3
        /\ conn[i].served[2].req.params.name = "nonexistent_tool"
        /\ "error" \in DOMAIN conn[i].served[2].resp
        /\ conn[i].served[3].req.params.name = "kill_process"
        /\ IsErrorAnswer(conn[i].served[3].resp)
        /\ srv[conn[i].to].pc = "accept"
        /\ conn[i].hs = "Ready"

\* ---------------------------------------------------------------------- C21
\* The calls of the caller's log on which a response line with an `error`
\* object (code and message) arrived at a connected client.
ErrorArrived(k) ==
    /\ dlog[k].call \in LibMethods
    /\ dlog[k].stream = "some"
    /\ dlog[k].given.read = "line"
    /\ "error" \in DOMAIN dlog[k].given.json
    /\ "result" \notin DOMAIN dlog[k].given.json

\* C21: when the response line carries an `error` object, list_tools /
\* call_tool return to the caller a value (not a failure) that holds that
\* error's code, message and data as the line had them; the client still holds
\* its stream and the peer is still connected, so a further call can be made.
C21_ErrorIsAValue ==
    \A k \in 1..Len(dlog) :
        ErrorArrived(k) =>
            /\ dlog[k].ret.ok
            /\ dlog[k].ret.value.result.variant = "Error"
            /\ dlog[k].ret.value.result.error.code = dlog[k].given.json.error.code
            /\ Escape(dlog[k].ret.value.result.error.message)
                  = dlog[k].given.json.error.message
            /\ dlog[k].ret.value.result.error.data
                  = (IF "data" \in DOMAIN dlog[k].given.json.error
                     THEN SomeValue(dlog[k].given.json.error.data) ELSE NoneValue)
            /\ dlog[k].stream = "some"
            /\ dlog[k].peer = "up"
            /\ \A n \in (k+1)..Len(dlog) :
                  dlog[n].given.read = "line" /\ "result" \in DOMAIN dlog[n].given.json
                      => dlog[n].ret.ok /\ dlog[n].ret.value.result.variant = "Success"

\* An error with data was returned as a value, and the next call on the same
\* client returned a result.
C21_Witness ==
    \E k \in 1..Len(dlog) :
        /\ ErrorArrived(k)
        /\ "data" \in DOMAIN dlog[k].given.json.error
        /\ dlog[k].ret.ok
        /\ k < Len(dlog)
        /\ dlog[k+1].ret.ok
        /\ dlog[k+1].ret.value.result.variant = "Success"

\* ---------------------------------------------------------------------- C22
\* Connection-level causes of a failed call (refused connect, reset, the peer
\* closing the stream before it answered, a broken write) and protocol-level
\* ones (a line that is no JSON, or JSON with neither result nor error).
ConnectionLevel(k) ==
    /\ ~dlog[k].ret.ok
    /\ \/ dlog[k].call = "connect"
       \/ dlog[k].stream = "some" /\ dlog[k].given.read \in {"eof", "reset"}

ProtocolLevel(k) ==
    /\ ~dlog[k].ret.ok
    /\ dlog[k].call \in LibMethods
    /\ dlog[k].stream = "some"
    /\ dlog[k].given.read \in {"line", "text"}

\* C22 as stated: a connection-level failure is reported as an I/O error and
\* a protocol-level failure as a parse error, so that the two kinds are never
\* the same.  Refuted: a stream closed before the answer is reported by the
\* JSON parser.
C22_FailureKindsDistinct ==
    \A k \in 1..Len(dlog) :
        /\ ConnectionLevel(k) => dlog[k].ret.error.type = "std::io::Error"
        /\ ProtocolLevel(k) => dlog[k].ret.error.type = "serde_json::Error"

\* ---------------------------------------------------------------------- C23
\* The calls of BinSystemCommand.kill_process in the log.
BinKills == {k \in 1..Len(dlog) : dlog[k].backend = "Bin" /\ dlog[k].op = "kill_process"}

\* C23: BinSystemCommand.kill_process returns a result that is a success or
\* an error; a success exactly when the kill command was started and exited
\* with status 0; after a non-zero exit the error carries the command's
\* stderr, after a failure to start it the I/O error text, and on an OS it
\* does not know the OS name, and then no command was run.
C23_KillResultTotal ==
    \A k \in BinKills :
        LET c == dlog[k]
            started == c.command # <<>> /\ c.output.ok
        IN /\ c.result.isError \in BOOLEAN
           /\ ~c.result.isError <=> (started /\ c.output.status = 0)
           /\ c.result.isError => "error" \in DOMAIN c.result.structuredContent
           /\ (started /\ c.output.status # 0)
                 => /\ Contains(c.result.structuredContent.error, c.output.stderr)
                    /\ c.result.structuredContent.stderr = c.output.stderr
           /\ (c.command # <<>> /\ ~c.output.ok)
                 => Contains(c.result.structuredContent.error, c.output.e)
           /\ c.os \notin {"linux", "macos", "windows"}
                 => /\ c.command = <<>>
                    /\ c.result.isError
                    /\ Contains(c.result.structuredContent.error, c.os)
                    /\ c.after = c.before

\* All four outcomes have been seen: a kill that worked, a kill command that
\* exited non-zero, one that could not be started, and an unknown OS.
C23_Witness ==
    /\ \E k \in BinKills : ~dlog[k].result.isError /\ dlog[k].pid \notin dlog[k].after
    /\ \E k \in BinKills :
          dlog[k].command # <<>>
          /\ (\/ dlog[k].output.ok /\ dlog[k].output.status # 0
              \/ ~dlog[k].output.ok)

\* ---------------------------------------------------------------------- C24
\* C24 as stated: a call on LibSystemCommand and a call on BinSystemCommand of
\* the same operation with the same input, on the same OS and process table,
\* have the same kind of outcome and leave the same process table.  Refuted:
\* LibSystemCommand::kill_process kills nothing and always reports an error.
C24_BackendsInterchangeable ==
    \A j, k \in 1..Len(dlog) :
        (/\ dlog[j].backend = "Lib" /\ dlog[k].backend = "Bin"
         /\ dlog[j].op = dlog[k].op
         /\ dlog[j].pid = dlog[k].pid
         /\ dlog[j].os = dlog[k].os
         /\ dlog[j].before = dlog[k].before)
        => /\ dlog[j].result.isError = dlog[k].result.isError
           /\ dlog[j].after = dlog[k].after

\* ---------------------------------------------------------------------- C25
\* C25 as stated: no operation of TokenStore writes the token file while it
\* holds the read or write lock on the token map.  Refuted: persist writes
\* under its own read guard.
C25_NoLockAcrossWrite ==
    \A k \in 1..Len(dlog) :
        dlog[k].ev = "fs::write" => dlog[k].by \notin dlog[k].held

\* ---------------------------------------------------------------------- C26
\* The last call before k that saved or removed provider p (0: none): a save
\* or remove of p, or a remove_all_tokens.
Touches(j, p) ==
    /\ dlog[j].ev \in {"save", "remove", "remove_all_tokens"}
    /\ dlog[j].ev # "remove_all_tokens" => dlog[j].provider = p

LastTouch(k, p) ==
    IF \E j \in 1..(k-1) : Touches(j, p)
    THEN CHOOSE j \in 1..(k-1) :
            Touches(j, p) /\ \A n \in (j+1)..(k-1) : ~Touches(n, p)
    ELSE 0

\* C26 as stated: a get of provider p gives the token of the last save for p
\* (its access and refresh tokens), and none when the last call for p was a
\* remove; calls for another provider do not matter.  Refuted: save, remove
\* and get panic where the plugin and its test call them from, so that a get
\* after save(t) does not give t.
C26_StoreIsAMap ==
    \A k \in 1..Len(dlog) :
        (dlog[k].ev = "get" /\ LastTouch(k, dlog[k].provider) # 0)
        => LET j == LastTouch(k, dlog[k].provider)
           IN IF dlog[j].ev = "save"
              THEN /\ ~dlog[k].panicked
                   /\ dlog[k].result.some
                   /\ dlog[k].result.value.access_token = dlog[j].token.value.access_token
                   /\ dlog[k].result.value.refresh_token = dlog[j].token.value.refresh_token
              ELSE ~dlog[k].panicked /\ dlog[k].result = NoneValue

\* ---------------------------------------------------------------------- C27
\* C27: is_expired() holds iff now >= expires_at and needs_refresh() iff
\* now + 5 minutes >= expires_at; so an expired token needs refresh, and a
\* token that expires more than 5 minutes from now is neither.
C27_ExpiryPredicates ==
    \A k \in 1..Len(dlog) :
        dlog[k].ev = "expiry" =>
            /\ dlog[k].is_expired <=> dlog[k].now >= dlog[k].token.expires_at
            /\ dlog[k].needs_refresh <=> dlog[k].now + 5 >= dlog[k].token.expires_at
            /\ dlog[k].is_expired => dlog[k].needs_refresh
            /\ dlog[k].token.expires_at > dlog[k].now + 5
                  => ~dlog[k].is_expired /\ ~dlog[k].needs_refresh

\* A token inside the buffer: not expired, and in need of refresh.
C27_Witness ==
    \E k \in 1..Len(dlog) :
        /\ dlog[k].ev = "expiry"
        /\ dlog[k].needs_refresh
        /\ ~dlog[k].is_expired
        /\ dlog[k].token.expires_at = dlog[k].now + 5

\* ---------------------------------------------------------------------- C28
\* C28 as stated: when the lock-file write of the server that a `start`
\* launched has failed, that server is not in the accept loop and the `start`
\* invocation ends with a non-zero exit.  Refuted: start_server ends with
\* show_status and Ok(()) whatever became of the child.
C28_LockWriteFailureReported ==
    [][\A i \in Invs :
          (/\ inv[i].cmd = "start"
           /\ inv[i].pc = "sleep"
           /\ srv[i].pc = "exited"
           /\ inv'[i].pc = "done")
          => inv'[i].exit # 0 /\ srv'[i].pc # "accept"]_vars

\* ---------------------------------------------------------------------- C29
\* C29 as stated: whenever a server launched by the tool is in its accept
\* loop, the lock file holds that server's pid and port.  Refuted: a second
\* server overwrites the record, and stop removes it, while a first server
\* lives on.
C29_LiveServerIsRecorded ==
    \A s \in Srvs :
        srv[s].pc = "accept" => lockFile = LockJson(srv[s].pid, srv[s].port)

\* ---------------------------------------------------------------------- C30
\* C30 as stated: the kill of stop_server hits nothing but the tool server
\* that wrote the record the lock file holds; a process that is not a tool
\* server is never killed by it.  Refuted: the pid of a stale record may
\* belong to an unrelated process by now.
C30_StopKillsOnlyRecordedServer ==
    [][\A i \in Invs :
          (inv[i].cmd = "stop" /\ inv[i].pc = "kill" /\ inv'[i].pc = "done")
          => /\ other' = other
             /\ \A s \in Srvs :
                   srv'[s] # srv[s]
                   => /\ srv[s].pc = "accept"
                      /\ lockFile = LockJson(srv[s].pid, srv[s].port)]_vars

\* ---------------------------------------------------------------------- C31
\* C31 as stated: when two stop invocations have both found the one running
\* server and both have finished, neither reported an error, and no lock
\* file is left.  Refuted: the slower one fails in fs::remove_file.
C31_ConcurrentStopsSucceed ==
    \A i, j \in Invs :
        (/\ i # j
         /\ inv[i].cmd = "stop" /\ inv[j].cmd = "stop"
         /\ inv[i].saw = "live" /\ inv[j].saw = "live"
         /\ inv[i].pc = "done" /\ inv[j].pc = "done")
        => /\ inv[i].exit = 0 /\ inv[j].exit = 0
           /\ inv[i].out # "ERROR" /\ inv[j].out # "ERROR"
           /\ lockFile = Absent

\* ---------------------------------------------------------------------- C32
\* C32 as stated: the lines receive_response has returned are, in order, the
\* lines the peer has written, and once nothing is left on the socket every
\* written line has been returned: none is lost between two calls.  Refuted:
\* a line that arrived together with the one returned is dropped.
C32_OneLinePerCall ==
    /\ \A k \in 1..Len(dlog) :
          k <= Len(conn[Reader].ev) /\ dlog[k].line = conn[Reader].ev[k].m
    /\ conn[Reader].s2c = <<>> => Len(dlog) = Len(conn[Reader].ev)

\* ---------------------------------------------------------------------- C33
\* The requests written and the response lines read among the first n events
\* of client i's connection.
RequestsIn(i, n) ==
    Len(SelectSeq(SubSeq(conn[i].ev, 1, n), LAMBDA x : x.e = "send" /\ IsRequest(x.m)))
ReadsIn(i, n) ==
    Len(SelectSeq(SubSeq(conn[i].ev, 1, n), LAMBDA x : x.e = "recv"))

\* C33: a client writes a request only when every earlier request of its
\* connection has had a response line read, so at most one request is
\* outstanding; and the k-th response line it reads is the server's response
\* to the k-th request it wrote.
C33_ClientStrictlySequential ==
    \A i \in Clients :
        /\ \A n \in 1..Len(conn[i].ev) :
              /\ (conn[i].ev[n].e = "send" /\ IsRequest(conn[i].ev[n].m))
                    => RequestsIn(i, n - 1) = ReadsIn(i, n - 1)
              /\ conn[i].ev[n].e = "recv"
                    => RequestsIn(i, n - 1) = ReadsIn(i, n - 1) + 1
              /\ RequestsIn(i, n) - ReadsIn(i, n) \in {0, 1}
        /\ \A k \in 1..Len(TakenAnswers(i)) :
              /\ k <= Len(conn[i].served)
              /\ conn[i].served[k].req = SentRequests(i)[k].m
              /\ TakenAnswers(i)[k].m = conn[i].served[k].resp

\* A client read two response lines, each while exactly one request was
\* outstanding: the first for initialize, the second for its tools request.
C33_Witness ==
    \E i \in Clients :
        /\ Len(TakenAnswers(i)) = 2
        /\ SentRequests(i)[1].m.method = "initialize"
        /\ SentRequests(i)[2].m.method \in {"tools/list", "tools/call"}
        /\ TakenAnswers(i)[2].m = conn[i].served[2].resp

\* ---------------------------------------------------------------- C34
\* The peer of connection i has closed its stream or written a line that does
\* not decode.
PeerDone(i) == conn[i].st = "shutdown" \/ SentUndecodable(i)

\* Connection j is Ready with a request waiting while another connection is Closed.
WaitingBesideClosed(j) ==
    /\ conn[j].hs = "Ready"
    /\ PeerAlive(j)
    /\ conn[j].c2s # <<>>
    /\ IsRequest(Head(conn[j].c2s))
    /\ \E i \in Tasks \ {j} : conn[i].hs = "Closed"

\* C34: once the peer of a connection has closed its stream or sent an
\* undecodable line, the connection's task finishes and the connection is
\* Closed (unless the whole server process is gone first); the step that closes
\* it changes neither the server nor any other connection, a request waiting on
\* another connection does not wait for ever (only ServeRequest takes it from
\* the head of the stream of a live server), and a Closed connection stays Closed.
C34_ConnectionLifecycle ==
    /\ \A i \in Tasks : PeerDone(i) ~> (conn[i].hs = "Closed" \/ ~PeerAlive(i))
    /\ \A j \in Tasks : WaitingBesideClosed(j) ~> ~WaitingBesideClosed(j)
    /\ [][\A i \in Tasks :
            /\ conn[i].hs = "Closed" => conn'[i].hs = "Closed"
            /\ (conn[i].hs # "Closed" /\ conn'[i].hs = "Closed") =>
                  /\ srv' = srv
                  /\ \A j \in Tasks \ {i} : conn'[j] = conn[j]]_vars

\* Connection 1 was closed on an undecodable line of a peer that never shut its
\* stream, connection 2 on its peer's shutdown after a served request, and the
\* server is still in its accept loop.
C34_Witness ==
    /\ conn[1].hs = "Closed" /\ SentUndecodable(1) /\ conn[1].st = "open"
    /\ conn[2].hs = "Closed" /\ conn[2].st = "shutdown" /\ Len(conn[2].served) >= 2
    /\ srv[conn[1].to].pc = "accept"
    /\ conn[2].to = conn[1].to

\* ---------------------------------------------------------------------- C35
\* The names a tools/list reply carries.
ListedNames(reply) == {reply.value.tools[a].name : a \in 1..Len(reply.value.tools)}

\* The reply to a tools/call is the MethodNotFound error.
IsMethodNotFound(reply) == reply.ret = "Err" /\ reply.error.code = METHOD_NOT_FOUND

\* C35: for every tools/list answer and every tools/call answer of one handler,
\* in either order, the called name is among the listed names exactly when the
\* call is not answered with MethodNotFound (it may still be answered with
\* InvalidParams).
C35_ListCallConsistent ==
    \A k, l \in 1..Len(dlog) :
        (dlog[k].method = "tools/list" /\ dlog[l].method = "tools/call")
        => (dlog[l].name \in ListedNames(dlog[k].reply)
            <=> ~IsMethodNotFound(dlog[l].reply))

\* C35 witness: kill_process was listed and then called with a pid that is a
\* string: the call was refused, but not as an unknown method.
C35_Witness ==
    /\ Len(dlog) = 2
    /\ dlog[1].method = "tools/list"
    /\ "kill_process" \in ListedNames(dlog[1].reply)
    /\ dlog[2].method = "tools/call" /\ dlog[2].name = "kill_process"
    /\ dlog[2].arguments = SomeArgs([pid |-> JStr("7")])
    /\ dlog[2].reply.ret = "Err"
    /\ dlog[2].reply.error.code = INVALID_PARAMS

\* ---------------------------------------------------------------------- C36
\* s is a non-empty run of decimal digits.
IsDigits(s) ==
    /\ Len(s) > 0
    /\ \A k \in 1..Len(s) :
          SubSeq(s, k, k) \in {"0", "1", "2", "3", "4", "5", "6", "7", "8", "9"}

\* The command line is `call <tool> key=value ...` for a registered tool and
\* gives every key the tool's input requires: a message for echo_message, a
\* pid of digits for kill_process.
SuppliesRequiredKeys(argv) ==
    /\ Len(argv) >= 2
    /\ argv[1] = "call"
    /\ LET parsed == ParseParams(argv, 3, EmptyMap)
       IN /\ parsed.ok
          /\ \/ argv[2] = "echo_message" /\ "message" \in DOMAIN parsed.map
             \/ /\ argv[2] = "kill_process"
                /\ "pid" \in DOMAIN parsed.map
                /\ IsDigits(parsed.map["pid"].v)

\* C36 as stated: the tools/call of a command line that supplies every required
\* key is not answered with InvalidParams.  Refuted: the CLI sends every value
\* as a JSON string, and {"pid": "7"} is not a KillProcessInput.
C36_CliCallReachesTool ==
    \A i \in Clients :
        \A k \in 1..Len(conn[i].served) :
            LET q == conn[i].served[k] IN
            (/\ inv[i].cmd = "call"
             /\ SuppliesRequiredKeys(inv[i].args)
             /\ IsRequest(q.req)
             /\ q.req.method = "tools/call")
            => ~(/\ "error" \in DOMAIN q.resp
                 /\ q.resp.error.code = INVALID_PARAMS)

\* ---------------------------------------------------------------------- C37
\* The arguments of `call` after the tool name.
CallArguments(argv) == 3..Len(argv)

\* Argument a has a '='; its key is what precedes the first one, its value
\* what follows it.
HasEq(a) == \E p \in 1..Len(a) : SubSeq(a, p, p) = "="
EqAt(a) == CHOOSE p \in 1..Len(a) :
              /\ SubSeq(a, p, p) = "="
              /\ \A q \in 1..(p - 1) : SubSeq(a, q, q) # "="
KeyOf(a) == SubSeq(a, 1, EqAt(a) - 1)
ValueOf(a) == SubSeq(a, EqAt(a) + 1, Len(a))

\* The command line has a tool name and every argument has a '='.
WellFormedCall(argv) ==
    /\ Len(argv) >= 2
    /\ \A k \in CallArguments(argv) : HasEq(argv[k])

\* The tools/call requests client i has written to its socket.
CallsWritten(i) ==
    {k \in 1..Len(conn[i].ev) : /\ conn[i].ev[k].e = "send"
                                /\ IsRequest(conn[i].ev[k].m)
                                /\ conn[i].ev[k].m.method = "tools/call"}

\* C37: a `call` whose command line lacks the tool name or has an argument
\* without '=' writes no tools/call request and ends with an error; otherwise
\* the request it writes names the tool and carries an object with one string
\* per key, the key being what precedes the first '=' of an argument and the
\* value what follows the first '=' of the last argument with that key.
C37_CallArgumentHandling ==
    \A i \in Clients :
        inv[i].cmd = "call" =>
            LET argv == inv[i].args IN
            IF ~WellFormedCall(argv)
            THEN /\ CallsWritten(i) = {}
                 /\ inv[i].pc = "done" => (inv[i].exit # 0 /\ inv[i].out # "PRINTED")
            ELSE \A k \in CallsWritten(i) :
                    LET p == conn[i].ev[k].m.params IN
                    /\ p.name = argv[2]
                    /\ p.arguments.some
                    /\ DOMAIN p.arguments.map = {KeyOf(argv[a]) : a \in CallArguments(argv)}
                    /\ \A a \in CallArguments(argv) :
                          (\A b \in CallArguments(argv) :
                               KeyOf(argv[b]) = KeyOf(argv[a]) => b <= a)
                          => p.arguments.map[KeyOf(argv[a])] = JStr(ValueOf(argv[a]))

\* C37 witness: `call echo_message message=hi message=a=b` wrote a request
\* whose message is "a=b", and the command has ended.
C37_Witness ==
    \E i \in Clients :
        /\ inv[i].args = <<"call", "echo_message", "message=hi", "message=a=b">>
        /\ inv[i].pc = "done"
        /\ \E k \in CallsWritten(i) :
              conn[i].ev[k].m.params.arguments.map = [message |-> JStr("a=b")]

\* ---------------------------------------------------------------------- C38
\* The level of a tool in the chain: Weather above Time above Echo.
Level(tool) ==
    CASE tool = "get_weather" -> 1
      [] tool = "get_time_in_location" -> 2
      [] tool = "echo" -> 3

\* How often tool t was invoked in the course of a call.
TimesCalled(calls, t) == Cardinality({a \in 1..Len(calls) : calls[a] = t})

\* C38: every call of a tool of the chain runs the called tool first and then
\* only tools further down, each at most once (so nothing calls back up and the
\* call ends after at most three tool bodies); get_weather invokes the Time
\* tool exactly for "TimeCity", get_time_in_location invokes the Echo tool
\* exactly for "EchoCity", echo invokes nothing; and a call that invokes no
\* other tool returns the tool's own fixed-format text.
C38_StaticToolChain ==
    \A k \in 1..Len(dlog) :
        LET e == dlog[k] IN
        /\ Len(e.calls) >= 1 /\ e.calls[1] = e.tool
        /\ \A a, b \in 1..Len(e.calls) : a < b => Level(e.calls[a]) < Level(e.calls[b])
        /\ e.tool = "get_weather" =>
              /\ TimesCalled(e.calls, "get_time_in_location")
                    = (IF e.input = "TimeCity" THEN 1 ELSE 0)
              /\ e.input # "TimeCity" =>
                    /\ e.calls = <<"get_weather">>
                    /\ e.out = "The weather in " \o e.input \o " is sunny."
        /\ e.tool = "get_time_in_location" =>
              /\ TimesCalled(e.calls, "echo") = (IF e.input = "EchoCity" THEN 1 ELSE 0)
              /\ e.input # "EchoCity" =>
                    /\ e.calls = <<"get_time_in_location">>
                    /\ e.out = "The current time in " \o e.input \o " is 12:00 PM."
        /\ e.tool = "echo" =>
              /\ e.calls = <<"echo">>
              /\ e.out = "Echo: " \o e.input

\* C38 witness: get_weather delegated once for "TimeCity" and the Time tool,
\* handed "TimeCity", called no one; get_time_in_location delegated once for
\* "EchoCity".
C38_Witness ==
    /\ Len(dlog) = 2
    /\ dlog[1].tool = "get_weather" /\ dlog[1].input = "TimeCity"
    /\ dlog[1].calls = <<"get_weather", "get_time_in_location">>
    /\ dlog[2].tool = "get_time_in_location" /\ dlog[2].input = "EchoCity"
    /\ dlog[2].calls = <<"get_time_in_location", "echo">>

\* ---------------------------------------------------------------------- C39
\* Entry j of the log is an oauth_start that stored a state and redirected.
Issued(j) == dlog[j].ev = "oauth_start" /\ dlog[j].result = "Redirect"

\* Entry k is an oauth_callback that presents the state issued at entry j.
Presents(k, j) ==
    /\ j < k
    /\ dlog[k].ev = "oauth_callback"
    /\ dlog[k].state = dlog[j].state

\* C39 as stated: the first oauth_callback that presents a state issued by
\* oauth_start for a configured provider passes the CSRF validation and goes
\* on to the token exchange, and every later callback that presents the same
\* state is rejected.  Refuted: the callback compares the provider id that
\* retrieve_csrf_token returns with the state and reports a mismatch.  (Where
\* block_on panics no state is issued at all.)
C39_IssuedStatePassesOnce ==
    \A j, k \in 1..Len(dlog) :
        (Issued(j) /\ Presents(k, j))
        => IF \A l \in 1..(k - 1) : ~Presents(l, j)
           THEN dlog[k].result = "exchange_code"
           ELSE dlog[k].result # "exchange_code"

====
